---------------------------- MODULE Spec2Model ----------------------------
(***************************************************************************)
(* Search and indexing subsystem of the product-catalog retrieval layer:   *)
(* the embedding generator (services/bedrock_service.py), the search index *)
(* (services/opensearch_service.py), the document store                    *)
(* (services/dynamodb_service.py), the catalog pipeline and query router   *)
(* (utils/catalog_loader.py) and the deployment-time loader                *)
(* (infrastructure/lib/lambda/catalog_loader.py).                          *)
(*                                                                         *)
(* Python dicts are functions whose domain is the set of keys present;     *)
(* lists are sequences; floats are integers (no arithmetic is done on      *)
(* vector components; scores are compared and divided exactly, see Ratio). *)
(*                                                                         *)
(* Every operation is served as one call: op, args, ret and sent describe  *)
(* the call being served, Return ends it.  SpecEmbed runs the embedding    *)
(* generator, SpecIndex bulk_index_products, SpecLambda the deployment-time*)
(* loader, SpecLoad full_catalog_load stage by stage, SpecFirstLoad the    *)
(* first load of a deployment on catalogs with irregular records,          *)
(* SpecSearch the searches and the query router over an indexed catalog,   *)
(* SpecImage the image-path conversions, SpecStore the number conversions  *)
(* of the document store, SpecApi the /search/semantic endpoint and        *)
(* SpecChat the chat handlers of several users with the streaming          *)
(* callbacks of the search agent (app.py, utils/streaming_utils.py,        *)
(* agents/search_agent.py).                                                *)
(* A value whose Python type matters (a price) carries it: Float, Str.     *)
(***************************************************************************)
EXTENDS Integers, Sequences, FiniteSets, TLC

VARIABLES
    bedrock_runtime,  \* BedrockService.bedrock_runtime: TRUE = client object, FALSE = None
    os_index,         \* the engine's index: product id -> stored document
    index_exists,     \* whether the engine holds the index
    store,            \* the products table: id -> item
    op,               \* the operation whose call is being served ("idle": none)
    args,             \* the inputs of that call
    ret,              \* its outcome: [raised |-> BOOLEAN, value |-> ...]
    sent,             \* the requests that call sent to its remote collaborators, in order,
                      \* each tagged with its receiver: [to |-> "model" | "bulk" | "search", ...]
    pc,               \* the stage a running full_catalog_load has reached ("idle": none runs)
    run,              \* the locals of that run
    search_callbacks, \* streaming_utils.search_callbacks._callbacks, in insertion order:
                      \* a sequence of [callback_id |-> ..., websocket |-> ...]
    chats,            \* user id -> where that user's handle_chat_message stands
    websockets        \* websocket -> the message last sent on it

vars == <<bedrock_runtime, os_index, index_exists, store, op, args, ret, sent, pc, run,
          search_callbacks, chats, websockets>>

\* the state of the chat layer
chat_vars == <<search_callbacks, chats, websockets>>

\* the users whose chats run side by side
Users == {"u1", "u2"}

\* the websocket a user's chat is connected on
Websocket(user_id) == [client |-> user_id]

\* what a websocket holds before any message is sent on it
NoMessage == [type |-> "none"]

\* a user whose handler does not run
NoChat == [pc |-> "idle", tool_name |-> "", callback_id |-> <<>>,
           accumulated_response |-> <<>>, seen_result |-> FALSE]

\* no chat has run: the registry is empty, no handler runs, nothing was sent
InitChat ==
    /\ search_callbacks = <<>>
    /\ chats = [u \in Users |-> NoChat]
    /\ websockets = [w \in { Websocket(u) : u \in Users } |-> NoMessage]

---------------------------------------------------------------------------
(* Program constants *)

\* the embedding dimension, [0.0] * 1024
D == 1024

\* the character budget of the text sent to the embedding model
MaxTextChars == 8000

(* Bounds of the model *)

\* vectors come in the lengths 0, Slack, D - Slack, D, D + Slack
Slack == 1

\* the longest batch handed to generate_embeddings_batch
MaxBatch == 2

---------------------------------------------------------------------------
(* Python helpers *)

Has(d, k) == k \in DOMAIN d

Put(d, k, v) == [x \in (DOMAIN d) \cup {k} |-> IF x = k THEN v ELSE d[x]]

Del(d, k) == [x \in (DOMAIN d) \ {k} |-> d[x]]

EmptyDict == [x \in {} |-> 0]

\* [0.0] * n
Zeros(n) == [i \in 1..n |-> 0]

ZeroVector == Zeros(D)

\* a model vector of length n: non-zero components that differ by position
Vec(n) == [i \in 1..n |-> 1 + (i % 7)]

VecLens == {0, Slack, D - Slack, D, D + Slack}

IsSpace(c) == c = " "

RECURSIVE lstrip(_)
lstrip(s) ==
    IF s # <<>> /\ IsSpace(Head(s)) THEN lstrip(Tail(s)) ELSE s

RECURSIVE rstrip(_)
rstrip(s) ==
    IF s # <<>> /\ IsSpace(s[Len(s)]) THEN rstrip(SubSeq(s, 1, Len(s) - 1)) ELSE s

\* str.strip()
strip(s) == rstrip(lstrip(s))

---------------------------------------------------------------------------
(* EmbeddingGenerator: services/bedrock_service.py *)

\* texts handed to the generator: empty, blank, padded, plain, over the budget
Texts ==
    { <<>>, <<" ", " ">>, <<" ", "a", "b", " ">>, <<"a", "b">>,
      [i \in 1..(MaxTextChars + Slack) |-> "a"] }

\* what the embedding model answers when invoked: it fails (the call raises, or
\* the body is no JSON object), or it answers with a body whose 'embedding' key
\* is absent or holds a vector
ModelResponses ==
    { [kind |-> "raise"], [kind |-> "no_key"] }
        \cup { [kind |-> "ok", embedding |-> Vec(n)] : n \in VecLens }

\* _ensure_client: TRUE when it raises ValueError
_ensure_client_raises(client) == ~client

\* response_body.get('embedding', [])
ResponseEmbedding(resp) ==
    IF resp.kind = "ok" THEN resp.embedding ELSE <<>>

\* a plausible slip: the vector is cut from the wrong end and never padded
FixDimensionKeepsTail(embedding) ==
    IF Len(embedding) > D
    THEN SubSeq(embedding, Len(embedding) - D + 1, Len(embedding))
    ELSE embedding

\* the tail of generate_embeddings: the dimension fix of lines 85-94
FixDimension(embedding) ==
    IF Len(embedding) # D
    THEN IF Len(embedding) > D
         THEN SubSeq(embedding, 1, D)
         ELSE embedding \o Zeros(D - Len(embedding))
    ELSE embedding

\* generate_embeddings(text) against a model that would answer resp:
\* [raised, value, invoked], invoked being the inputText values sent to the model
generate_embeddings(client, text, resp) ==
    IF _ensure_client_raises(client)
    THEN [raised |-> TRUE, value |-> <<>>, invoked |-> <<>>]
    ELSE LET cleaned_text == strip(text)
             truncated == IF Len(cleaned_text) > MaxTextChars
                          THEN SubSeq(cleaned_text, 1, MaxTextChars)
                          ELSE cleaned_text
         IN  IF cleaned_text = <<>>
             THEN [raised |-> FALSE, value |-> ZeroVector, invoked |-> <<>>]
             ELSE IF resp.kind = "raise"
             THEN [raised |-> FALSE, value |-> ZeroVector, invoked |-> <<[to |-> "model", inputText |-> truncated]>>]
             ELSE IF ResponseEmbedding(resp) = <<>>
             THEN [raised |-> FALSE, value |-> ZeroVector, invoked |-> <<[to |-> "model", inputText |-> truncated]>>]
             ELSE [raised |-> FALSE,
                   value |-> FixDimension(ResponseEmbedding(resp)),
                   invoked |-> <<[to |-> "model", inputText |-> truncated]>>]

\* a plausible slip: the except branch logs and appends nothing
RECURSIVE BatchLoopDropsFailures(_, _, _, _, _)
BatchLoopDropsFailures(client, texts, resps, i, embeddings) ==
    IF i > Len(texts)
    THEN embeddings
    ELSE LET r == generate_embeddings(client, texts[i], resps[i])
         IN  BatchLoopDropsFailures(client, texts, resps, i + 1,
                       IF r.raised THEN embeddings ELSE Append(embeddings, r.value))

\* the loop of generate_embeddings_batch over texts[i..], appending to embeddings
RECURSIVE BatchLoop(_, _, _, _, _)
BatchLoop(client, texts, resps, i, embeddings) ==
    IF i > Len(texts)
    THEN embeddings
    ELSE LET r == generate_embeddings(client, texts[i], resps[i])
         IN  BatchLoop(client, texts, resps, i + 1,
                       Append(embeddings, IF r.raised THEN ZeroVector ELSE r.value))

generate_embeddings_batch(client, texts, resps) ==
    BatchLoop(client, texts, resps, 1, <<>>)

\* the inputText values the whole batch sent to the model
RECURSIVE BatchInvoked(_, _, _, _)
BatchInvoked(client, texts, resps, i) ==
    IF i > Len(texts)
    THEN <<>>
    ELSE generate_embeddings(client, texts[i], resps[i]).invoked
            \o BatchInvoked(client, texts, resps, i + 1)

\* the texts of a batch: blank or plain
BatchTexts == { <<" ">>, <<"a", "b">> }

BatchResponses ==
    { [kind |-> "raise"], [kind |-> "ok", embedding |-> Vec(D)],
      [kind |-> "ok", embedding |-> Vec(Slack)] }

SeqsUpTo(S, n) == UNION { [1..k -> S] : k \in 0..n }

\* the call being served returns: its caller takes ret, the call's locals are
\* gone and the next call can be served
Return ==
    /\ op # "idle"
    /\ pc = "idle"
    /\ op' = "idle"
    /\ args' = EmptyDict
    /\ ret' = [raised |-> FALSE, value |-> EmptyDict]
    /\ sent' = <<>>
    /\ run' = EmptyDict
    /\ UNCHANGED <<bedrock_runtime, os_index, index_exists, store, pc>>
    /\ UNCHANGED chat_vars

GenerateEmbeddings ==
    /\ op = "idle"
    /\ \E text \in Texts, resp \in ModelResponses :
        LET r == generate_embeddings(bedrock_runtime, text, resp)
        IN  /\ op' = "generate_embeddings"
            /\ args' = [text |-> text, resp |-> resp]
            /\ ret' = [raised |-> r.raised, value |-> r.value]
            /\ sent' = r.invoked
            /\ UNCHANGED <<bedrock_runtime, os_index, index_exists, store, pc, run>>
    /\ UNCHANGED chat_vars

GenerateEmbeddingsBatch ==
    /\ op = "idle"
    /\ \E texts \in SeqsUpTo(BatchTexts, MaxBatch) :
        \E resps \in [1..Len(texts) -> BatchResponses] :
            /\ op' = "generate_embeddings_batch"
            /\ args' = [texts |-> texts, resps |-> resps]
            /\ ret' = [raised |-> FALSE,
                       value |-> generate_embeddings_batch(bedrock_runtime, texts, resps)]
            /\ sent' = BatchInvoked(bedrock_runtime, texts, resps, 1)
            /\ UNCHANGED <<bedrock_runtime, os_index, index_exists, store, pc, run>>
    /\ UNCHANGED chat_vars

\* BedrockService.__init__: the client is built, or the constructor caught an
\* exception and left bedrock_runtime = None
InitEmbed ==
    /\ bedrock_runtime \in BOOLEAN
    /\ os_index = EmptyDict
    /\ index_exists = FALSE
    /\ store = EmptyDict
    /\ op = "idle"
    /\ args = EmptyDict
    /\ ret = [raised |-> FALSE, value |-> EmptyDict]
    /\ sent = <<>>
    /\ pc = "idle"
    /\ run = EmptyDict
    /\ InitChat

NextEmbed ==
    \/ GenerateEmbeddings
    \/ GenerateEmbeddingsBatch
    \/ Return

SpecEmbed == InitEmbed /\ [][NextEmbed]_vars

---------------------------------------------------------------------------
(* SearchIndex, bulk indexing: services/opensearch_service.py *)

\* datetime.now().isoformat()
Now == "now"

\* a JSON number and a JSON string, as Python values that carry their type
Float(x) == [float |-> x]

Str(chars) == [str |-> chars]

isinstance_str(v) == DOMAIN v = {"str"}

Digits == <<"0", "1", "2", "3", "4", "5", "6", "7", "8", "9">>

IsDigit(c) == \E d \in 1..Len(Digits) : Digits[d] = c

DigitValue(c) == (CHOOSE d \in 1..Len(Digits) : Digits[d] = c) - 1

\* float(chars) of a string made of decimal digits or of letters: surrounding
\* blanks are ignored, digits give their value, anything else is a ValueError
float_of_str(chars) ==
    LET t == strip(chars)
        Value[i \in 0..Len(t)] ==
            IF i = 0 THEN 0 ELSE 10 * Value[i - 1] + DigitValue(t[i])
    IN  IF t # <<>> /\ \A i \in 1..Len(t) : IsDigit(t[i])
        THEN [raised |-> FALSE, value |-> Value[Len(t)]]
        ELSE [raised |-> TRUE, value |-> 0]

\* the engine's vector field has dimension D: a document carrying a non-empty
\* vector of another length is rejected, one by one, by the bulk endpoint (an
\* empty one may be rejected or taken for an absent field: see RejectSets).
\* Its price field is a float: a string that is no number is rejected too.
EngineMustReject(doc) ==
    \/ Has(doc, "embedding") /\ Len(doc.embedding) \notin {0, D}
    \/ /\ Has(doc, "price")
       /\ isinstance_str(doc.price)
       /\ float_of_str(doc.price.str).raised

\* the positions of a bulk request the engine may reject: any set holding the
\* positions it must reject
RejectSets(actions) ==
    { R \in SUBSET (1..Len(actions)) :
        \A i \in 1..Len(actions) : EngineMustReject(actions[i]._source) => i \in R }

\* the outcomes of helpers.bulk(client, actions, ...): the request is answered,
\* with some documents rejected, or the transport fails
BulkOutcomes(actions) ==
    { [kind |-> "ok", rejected |-> R] : R \in RejectSets(actions) }
        \cup (IF actions = <<>> THEN {} ELSE { [kind |-> "connection_error"] })

\* the index after the engine applied the accepted actions acts[i..], in order
RECURSIVE EngineBulk(_, _, _, _)
EngineBulk(idx, acts, rejected, i) ==
    IF i > Len(acts)
    THEN idx
    ELSE EngineBulk(IF i \in rejected THEN idx
                    ELSE Put(idx, acts[i]._id, acts[i]._source),
                    acts, rejected, i + 1)

\* lines 376-388 without the zero fill of line 380
IndexDocumentKeepsEmpty(product) ==
    LET product_copy == Put(product, "indexed_at", Now)
    IN  IF ~Has(product_copy, "embedding") \/ product_copy.embedding = <<>>
        THEN product_copy
        ELSE IF Len(product_copy.embedding) > D
        THEN Put(product_copy, "embedding", SubSeq(product_copy.embedding, 1, D))
        ELSE Put(product_copy, "embedding",
                 product_copy.embedding \o Zeros(D - Len(product_copy.embedding)))

\* lines 376-388: the copy of one product that goes into its action
IndexDocument(product) ==
    LET product_copy == Put(product, "indexed_at", Now)
    IN  IF ~Has(product_copy, "embedding") \/ product_copy.embedding = <<>>
        THEN Put(product_copy, "embedding", ZeroVector)
        ELSE IF Len(product_copy.embedding) # D
        THEN IF Len(product_copy.embedding) > D
             THEN Put(product_copy, "embedding", SubSeq(product_copy.embedding, 1, D))
             ELSE Put(product_copy, "embedding",
                      product_copy.embedding \o Zeros(D - Len(product_copy.embedding)))
        ELSE product_copy

\* product.copy() is shallow: the copy shares the embedding list, so the
\* extend of line 388 also lengthens the caller's list
ProductAfterIndexing(product) ==
    IF Has(product, "embedding") /\ product.embedding # <<>> /\ Len(product.embedding) < D
    THEN Put(product, "embedding", product.embedding \o Zeros(D - Len(product.embedding)))
    ELSE product

\* the first product without 'id' (product_copy['id'] raises KeyError there),
\* or Len(products) + 1
RECURSIVE FirstWithoutId(_, _)
FirstWithoutId(products, i) ==
    IF i > Len(products) \/ ~Has(products[i], "id")
    THEN i
    ELSE FirstWithoutId(products, i + 1)

\* lines 374-396: the actions built from the products
BulkActions(products) ==
    [i \in 1..Len(products) |->
        [_index |-> "products", _id |-> products[i].id, _source |-> IndexDocument(products[i])]]

\* an errors list that reports the first rejected document only
BulkErrorsFirstOnly(actions, rejected) ==
    IF rejected = {}
    THEN <<>>
    ELSE LET i == CHOOSE k \in rejected : \A j \in rejected : k <= j
         IN  <<[index |-> [_id |-> actions[i]._id, status |-> 400]]>>

\* helpers.bulk returns the number of accepted documents and the errors list:
\* one item per rejected document
BulkErrors(actions, rejected) ==
    LET F[i \in 0..Len(actions)] ==
            IF i = 0 THEN <<>>
            ELSE IF i \in rejected
                 THEN Append(F[i - 1], [index |-> [_id |-> actions[i]._id, status |-> 400]])
                 ELSE F[i - 1]
    IN  F[Len(actions)]

\* failed[:10]
ErrorsShown == 10

FirstN(seq, n) == SubSeq(seq, 1, IF Len(seq) < n THEN Len(seq) ELSE n)

\* bulk_index_products(products) when the bulk request ends as outcome says:
\* [raised, value, actions (handed to the engine), index, after (the caller's
\* products once the call is over)]
bulk_index_products(idx, products, outcome) ==
    LET k == FirstWithoutId(products, 1)
        after == [i \in 1..Len(products) |->
                    IF i <= k THEN ProductAfterIndexing(products[i]) ELSE products[i]]
    IN  IF k <= Len(products)
        THEN [raised |-> TRUE, error |-> "KeyError", value |-> EmptyDict,
              actions |-> <<>>, index |-> idx, after |-> after]
        ELSE LET actions == BulkActions(products)
             IN  IF outcome.kind = "connection_error"
                 THEN [raised |-> TRUE, error |-> "connection error", value |-> EmptyDict,
                       actions |-> actions, index |-> idx, after |-> after]
                 ELSE LET failed == BulkErrors(actions, outcome.rejected)
                          successful == Len(actions) - Cardinality(outcome.rejected)
                      IN  [raised |-> FALSE, error |-> "",
                           value |-> [success |-> TRUE,
                                      total_products |-> Len(products),
                                      successful |-> successful,
                                      failed |-> Len(failed),
                                      errors |-> FirstN(failed, ErrorsShown)],
                           actions |-> actions,
                           index |-> EngineBulk(idx, actions, outcome.rejected, 1),
                           after |-> after]

\* the requests a call of bulk_index_products sends: one bulk request
BulkSent(actions) ==
    IF actions = <<>> THEN <<>> ELSE <<[to |-> "bulk", actions |-> actions]>>

---------------------------------------------------------------------------
(* Document store: services/dynamodb_service.py *)

\* the keys whose values are Python floats (or lists of floats)
FloatKeys == {"price", "rating", "embedding"}

\* Decimal(str(x))
Decimal(x) == [decimal |-> x]

\* _prepare_item_for_dynamodb: every float, at any depth, becomes a Decimal
_prepare_item_for_dynamodb(item) ==
    [k \in DOMAIN item |->
        IF k \in FloatKeys
        THEN IF k = "embedding"
             THEN [i \in 1..Len(item[k]) |-> Decimal(item[k][i])]
             ELSE Decimal(item[k])
        ELSE item[k]]

\* lines 302-305: the loop stamps the caller's product dicts
Stamped(product) == Put(Put(product, "created_at", Now), "updated_at", Now)

\* the table after batch.put_item of items[i..]: an upsert by the key 'id'
RECURSIVE BatchPut(_, _, _)
BatchPut(table, items, i) ==
    IF i > Len(items)
    THEN table
    ELSE BatchPut(Put(table, items[i].id, items[i]), items, i + 1)

\* batch_write_products(products) when the table answers as outcome says:
\* [raised, value, table, after (the caller's products once the call is over)]
batch_write_products(table, products, outcome) ==
    LET after == [i \in 1..Len(products) |-> Stamped(products[i])]
        items == [i \in 1..Len(products) |-> _prepare_item_for_dynamodb(after[i])]
    IN  IF outcome = "client_error" \/ \E i \in 1..Len(products) : ~Has(products[i], "id")
        THEN [raised |-> TRUE, value |-> EmptyDict, table |-> table, after |-> after]
        ELSE [raised |-> FALSE,
              value |-> [success |-> TRUE, products_written |-> Len(products)],
              table |-> BatchPut(table, items, 1),
              after |-> after]

---------------------------------------------------------------------------
(* Deployment-time loader: infrastructure/lib/lambda/catalog_loader.py *)

\* generate_embedding: whatever the response holds under 'embedding', [] when
\* the key is absent, the zero vector when the call raises
lambda_generate_embedding(resp) ==
    IF resp.kind = "raise" THEN ZeroVector ELSE ResponseEmbedding(resp)

\* lines 85-93: the product prepared for storage
lambda_processed_product(product, resp) ==
    [id |-> product.id, name |-> product.name, category |-> product.category,
     price |-> product.price, embedding |-> lambda_generate_embedding(resp)]

\* load_to_dynamodb: every product is put without its embedding; any error of
\* the table or of the serializer makes the function return 0
lambda_load_to_dynamodb(table, products, outcome) ==
    LET items == [i \in 1..Len(products) |-> Del(products[i], "embedding")]
    IN  IF outcome = "client_error"
        THEN [value |-> 0, table |-> table]
        ELSE [value |-> Len(products), table |-> BatchPut(table, items, 1)]

\* lines 298-305: the actions carry the products as they are
LambdaActions(products) ==
    [i \in 1..Len(products) |->
        [_index |-> "products", _id |-> products[i].id, _source |-> products[i]]]

\* load_to_opensearch: the index is created only when absent, the documents are
\* sent as they are, and any error (no connection, a rejected document) makes
\* the function return 0
lambda_load_to_opensearch(idx, products, connected, outcome) ==
    LET actions == LambdaActions(products)
    IN  IF ~connected
        THEN [value |-> 0, actions |-> <<>>, index |-> idx, created |-> FALSE]
        ELSE IF actions = <<>>
        THEN [value |-> 0, actions |-> <<>>, index |-> idx, created |-> TRUE]
        ELSE IF outcome.kind = "connection_error"
        THEN [value |-> 0, actions |-> actions, index |-> idx, created |-> TRUE]
        ELSE [value |-> IF outcome.rejected = {} THEN Len(actions) ELSE 0,
              actions |-> actions,
              index |-> EngineBulk(idx, actions, outcome.rejected, 1),
              created |-> TRUE]

---------------------------------------------------------------------------
(* CatalogPipeline: utils/catalog_loader.py *)

\* the products of the source catalog, in file order
ProductIds ==
    <<"p1", "p2", "p3", "p4", "p5", "p6", "p7", "p8", "p9", "p10", "p11", "p12">>

RawProduct(i) ==
    LET base == [id |-> ProductIds[i], name |-> <<"name", ProductIds[i]>>,
                 category |-> "Vitamins", price |-> Float(10 * i)]
    IN  IF i % 2 = 0
        THEN Put(Put(base, "stock_status", "Out of Stock"), "rating", 5)
        ELSE base

\* the most products a catalog or a bulk call holds
MaxProducts == 2

\* the default rating of a product that carries none
DefaultRating == 4

\* the keys Python may draw for its string hash: one per process, at random
\* unless PYTHONHASHSEED is set
HashSeeds == {"seed a", "seed b"}

\* hash(text) in a process whose key is hash_seed
hash(text, hash_seed) == [siphash |-> text, key |-> hash_seed]

\* A URL or path is the sequence of its pieces: "/" and "?" are pieces of their
\* own, any other piece is a run of characters holding neither.
ImagesPrefix == <<"/", "images", "/">>

\* s.startswith(prefix)
startswith(s, prefix) ==
    Len(s) >= Len(prefix) /\ SubSeq(s, 1, Len(prefix)) = prefix

\* the pieces that hold 's3.amazonaws.com' or 's3-'
S3Pieces ==
    {"bucket.s3.amazonaws.com", "bucket.s3-us-west-2.amazonaws.com"}

\* 's3.amazonaws.com' in image_url or 's3-' in image_url
IsS3Url(s) == \E i \in 1..Len(s) : s[i] \in S3Pieces

\* image_url.startswith('http')
startswith_http(s) == s # <<>> /\ s[1] \in {"http:", "https:"}

\* re.search(r'/images/([^?]+)', s): the leftmost '/images/' followed by a
\* character other than '?'; the group runs to the next '?' or to the end
re_search_images(s) ==
    LET K == { k \in 1..(Len(s) - 3) :
                 SubSeq(s, k, k + 2) = ImagesPrefix /\ s[k + 3] # "?" }
    IN  IF K = {}
        THEN [matched |-> FALSE, group |-> <<>>]
        ELSE LET k == CHOOSE x \in K : \A y \in K : x <= y
                 Q == { q \in (k + 3)..Len(s) : s[q] = "?" }
                 end == IF Q = {} THEN Len(s)
                        ELSE (CHOOSE x \in Q : \A y \in Q : x <= y) - 1
             IN  [matched |-> TRUE, group |-> SubSeq(s, k + 3, end)]

\* lines 263-280 of _transform_product_data: the image_url of a product
transform_image_url(image_url) ==
    IF IsS3Url(image_url)
    THEN LET match == re_search_images(image_url)
         IN  IF match.matched
             THEN ImagesPrefix \o match.group
             ELSE IF ~startswith(image_url, ImagesPrefix)
             THEN ImagesPrefix \o image_url
             ELSE image_url
    ELSE IF ~startswith(image_url, ImagesPrefix) /\ ~startswith_http(image_url)
    THEN ImagesPrefix \o image_url
    ELSE image_url

\* lines 229-254 and 263-280 of _transform_product_data, price left as it is
TransformKeepsPrice(product, hash_seed) ==
    LET p1 == Put(product, "in_stock",
                  IF Has(product, "stock_status")
                  THEN product.stock_status \in {"in stock", "available", "yes", "true"}
                  ELSE TRUE)
        p2 == IF Has(p1, "id") /\ ~Has(p1, "product_id")
              THEN Put(p1, "product_id", p1.id)
              ELSE IF ~Has(p1, "product_id") /\ ~Has(p1, "id")
              THEN Put(p1, "product_id",
                       <<"PROD_", hash(IF Has(p1, "name") THEN p1.name ELSE "unknown",
                                       hash_seed)>>)
              ELSE p1
        p3 == IF ~Has(p2, "rating") THEN Put(p2, "rating", DefaultRating) ELSE p2
        p4 == IF ~Has(p3, "reviews_count") THEN Put(p3, "reviews_count", 0) ELSE p3
    IN  IF Has(p4, "image_url")
        THEN Put(p4, "image_url", transform_image_url(p4.image_url))
        ELSE p4

\* _transform_product_data: in_stock, product_id, rating, reviews_count, price
\* and image_url, in a process whose hash key is hash_seed
_transform_product_data(product, hash_seed) ==
    LET p1 == Put(product, "in_stock",
                  IF Has(product, "stock_status")
                  THEN product.stock_status \in {"in stock", "available", "yes", "true"}
                  ELSE TRUE)
        p2 == IF Has(p1, "id") /\ ~Has(p1, "product_id")
              THEN Put(p1, "product_id", p1.id)
              ELSE IF ~Has(p1, "product_id") /\ ~Has(p1, "id")
              THEN Put(p1, "product_id",
                       <<"PROD_", hash(IF Has(p1, "name") THEN p1.name ELSE "unknown",
                                       hash_seed)>>)
              ELSE p1
        p3 == IF ~Has(p2, "rating") THEN Put(p2, "rating", DefaultRating) ELSE p2
        p4 == IF ~Has(p3, "reviews_count") THEN Put(p3, "reviews_count", 0) ELSE p3
        p5 == IF Has(p4, "price") /\ isinstance_str(p4.price)
              THEN LET f == float_of_str(p4.price.str)
                   IN  Put(p4, "price", Float(IF f.raised THEN 0 ELSE f.value))
              ELSE p4
    IN  IF Has(p5, "image_url")
        THEN Put(p5, "image_url", transform_image_url(p5.image_url))
        ELSE p5

\* ', '.join(items) raises TypeError when an item is no string
join_raises(items) == \E i \in 1..Len(items) : ~isinstance_str(items[i])

\* ', '.join(items) of strings
RECURSIVE join(_)
join(items) ==
    IF items = <<>> THEN <<>>
    ELSE IF Len(items) = 1 THEN items[1].str
    ELSE items[1].str \o <<", ">> \o join(Tail(items))

\* _create_searchable_text raises: the join of line 304 meets an ingredient
\* that is no string
_create_searchable_text_raises(product) ==
    Has(product, "ingredients") /\ join_raises(product.ingredients)

\* _create_searchable_text: the parts present (name, category, ingredients),
\* joined by single spaces
_create_searchable_text(product) ==
    LET name == IF Has(product, "name") THEN <<product.name>> ELSE <<>>
        category == IF Has(product, "category")
                    THEN <<<<"Category: ", product.category>>>> ELSE <<>>
        ingredients == IF Has(product, "ingredients") /\ product.ingredients # <<>>
                       THEN <<<<"Ingredients: ">> \o join(product.ingredients)>>
                       ELSE <<>>
        text_parts == name \o category \o ingredients
        Join[i \in 0..Len(text_parts)] ==
            IF i = 0 THEN <<>>
            ELSE IF i = 1 THEN text_parts[1]
            ELSE Join[i - 1] \o <<" ">> \o text_parts[i]
    IN  Join[Len(text_parts)]

\* one turn of the loop of process_products_for_search (lines 200-215)
ProcessedProduct(client, product, resp, hash_seed) ==
    LET processed_product == _transform_product_data(product, hash_seed)
        searchable_text == _create_searchable_text(processed_product)
        r == generate_embeddings(client, searchable_text, resp)
    IN  Put(Put(processed_product, "embedding", IF r.raised THEN <<>> ELSE r.value),
            "searchable_text", searchable_text)

process_products_for_search(client, products, resps, hash_seed) ==
    [i \in 1..Len(products) |->
        ProcessedProduct(client, products[i], resps[i], hash_seed)]

\* the first product whose searchable text cannot be built, 0 when there is
\* none: process_products_for_search raises there (lines 204 and 220-222)
ProcessRaisesAt(products) ==
    LET B == { i \in 1..Len(products) : _create_searchable_text_raises(products[i]) }
    IN  IF B = {} THEN 0 ELSE CHOOSE i \in B : \A j \in B : i <= j

\* the inputText values the embed stage sent to the model
RECURSIVE ProcessInvoked(_, _, _, _, _)
ProcessInvoked(client, products, resps, hash_seed, i) ==
    IF i > Len(products)
    THEN <<>>
    ELSE generate_embeddings(client,
            _create_searchable_text(_transform_product_data(products[i], hash_seed)),
            resps[i]).invoked
         \o ProcessInvoked(client, products, resps, hash_seed, i + 1)

\* the words that make load_to_opensearch take an error for a connectivity issue
ConnectivityKeywords ==
    {"connection refused", "connection error", "timeout", "network", "unreachable"}

\* delete_index when the engine answers as outcome says: an index that is
\* there is deleted with its documents, an absent one is left alone
delete_index(idx, exists, outcome) ==
    IF outcome # "ok"
    THEN [raised |-> TRUE, error |-> outcome, value |-> EmptyDict,
          index |-> idx, exists |-> exists]
    ELSE IF exists
    THEN [raised |-> FALSE, error |-> "", value |-> [deleted |-> TRUE],
          index |-> EmptyDict, exists |-> FALSE]
    ELSE [raised |-> FALSE, error |-> "", value |-> [deleted |-> FALSE],
          index |-> idx, exists |-> exists]

\* the ways the engine can treat create_index: every request succeeds ("ok"),
\* no request gets through ("connection error"), every request is refused
\* ("authorization"), or the requests succeed up to indices.create, which
\* times out ("timeout")
CreateOutcomes == {"ok", "connection error", "authorization", "timeout"}

\* a create_index that leaves an existing index as it is
CreateIndexKeepsIndex(idx, exists, outcome) ==
    IF outcome = "ok"
    THEN [raised |-> FALSE, error |-> "", value |-> [created |-> TRUE],
          index |-> idx, exists |-> TRUE]
    ELSE [raised |-> TRUE, error |-> outcome, value |-> EmptyDict,
          index |-> idx, exists |-> exists]

\* create_index when the engine answers as outcome says: an existing index is
\* deleted first (lines 345-351, any error there is swallowed), then the index
\* is created empty (line 354, an error there is raised)
create_index(idx, exists, outcome) ==
    LET d == IF outcome \in {"ok", "timeout"}
             THEN delete_index(idx, exists, "ok")
             ELSE delete_index(idx, exists, outcome)
    IN  IF outcome = "ok"
        THEN [raised |-> FALSE, error |-> "", value |-> [created |-> TRUE],
              index |-> d.index, exists |-> TRUE]
        ELSE [raised |-> TRUE, error |-> outcome, value |-> EmptyDict,
              index |-> d.index, exists |-> d.exists]

\* load_to_opensearch(products, vpc_mode): [raised, error, value, index, exists,
\* actions, after]
load_to_opensearch(idx, exists, products, vpc_mode, created, outcome) ==
    LET c == create_index(idx, exists, created)
        b == bulk_index_products(c.index, products, outcome)
        error == IF c.raised THEN c.error ELSE b.error
        soft == [success |-> FALSE, vpc_connectivity_issue |-> TRUE,
                 total_products |-> Len(products), successful |-> 0,
                 failed |-> Len(products)]
    IN  IF ~c.raised /\ ~b.raised
        THEN [raised |-> FALSE, error |-> "", value |-> b.value,
              index |-> b.index, exists |-> TRUE,
              actions |-> b.actions, after |-> b.after]
        ELSE [raised |-> ~(error \in ConnectivityKeywords /\ vpc_mode),
              error |-> error,
              value |-> IF error \in ConnectivityKeywords /\ vpc_mode THEN soft ELSE EmptyDict,
              index |-> c.index, exists |-> c.exists,
              actions |-> IF c.raised THEN <<>> ELSE b.actions,
              after |-> IF c.raised THEN products ELSE b.after]

\* lines 370-385: the result of full_catalog_load
LoadResult(products, dynamodb_result, opensearch_result, vpc_mode) ==
    LET store_ok == Has(dynamodb_result, "success") /\ dynamodb_result.success
        index_ok == Has(opensearch_result, "success") /\ opensearch_result.success
        issue == Has(opensearch_result, "vpc_connectivity_issue")
                    /\ opensearch_result.vpc_connectivity_issue
    IN  [success |-> IF vpc_mode /\ issue THEN store_ok ELSE store_ok /\ index_ok,
         total_products |-> Len(products),
         dynamodb_result |-> dynamodb_result,
         opensearch_result |-> opensearch_result,
         vpc_mode |-> vpc_mode]

---------------------------------------------------------------------------
(* Direct calls of bulk_index_products *)

\* the lists handed to bulk_index_products: the first product carries no
\* embedding, an empty one, one shorter than D, of length D or longer than D;
\* a later one carries D or more elements, or lacks 'id'
FirstProducts ==
    {RawProduct(1)} \cup { Put(RawProduct(1), "embedding", Vec(n)) : n \in VecLens }

LaterProducts(i) ==
    { Put(RawProduct(i), "embedding", Vec(D)),
      Put(RawProduct(i), "embedding", Vec(D + Slack)),
      Put(Del(RawProduct(i), "id"), "embedding", Vec(D - Slack)) }

BulkLists ==
    {<<>>} \cup
    UNION { { <<first>> \o rest :
                first \in FirstProducts,
                rest \in { s \in [1..(n - 1) -> UNION { LaterProducts(i) : i \in 2..n }] :
                             \A i \in 1..(n - 1) : s[i] \in LaterProducts(i + 1) } }
            : n \in 1..MaxProducts }

\* a batch with more products than the errors list shows, none carrying an
\* embedding; the engine rejects them all, or all but the first
LongBatch == [i \in 1..(ErrorsShown + 2) |-> RawProduct(i)]

LongBatchOutcomes ==
    { [kind |-> "ok", rejected |-> 1..Len(LongBatch)],
      [kind |-> "ok", rejected |-> 2..Len(LongBatch)] }

BulkIndexProducts ==
    /\ op = "idle"
    /\ \E products \in BulkLists \cup {LongBatch} :
        \E outcome \in IF products = LongBatch
                       THEN LongBatchOutcomes
                       ELSE IF FirstWithoutId(products, 1) <= Len(products)
                       THEN {[kind |-> "ok", rejected |-> {}]}
                       ELSE BulkOutcomes(BulkActions(products)) :
            LET r == bulk_index_products(os_index, products, outcome)
            IN  /\ op' = "bulk_index_products"
                /\ args' = [products |-> products, outcome |-> outcome]
                /\ ret' = [raised |-> r.raised, value |-> r.value, after |-> r.after]
                /\ sent' = BulkSent(r.actions)
                /\ os_index' = r.index
                /\ index_exists' = (index_exists \/ r.index # EmptyDict)
                /\ UNCHANGED <<bedrock_runtime, store, pc, run>>
    /\ UNCHANGED chat_vars

\* the ways the engine can treat delete_index
DeleteOutcomes == {"ok", "connection error"}

DeleteIndex ==
    /\ op = "idle"
    /\ \E outcome \in DeleteOutcomes :
        LET r == delete_index(os_index, index_exists, outcome)
        IN  /\ op' = "delete_index"
            /\ args' = [outcome |-> outcome, existed |-> index_exists, before |-> os_index]
            /\ ret' = [raised |-> r.raised, value |-> r.value]
            /\ sent' = <<>>
            /\ os_index' = r.index
            /\ index_exists' = r.exists
            /\ UNCHANGED <<bedrock_runtime, store, pc, run>>
    /\ UNCHANGED chat_vars

CreateIndex ==
    /\ op = "idle"
    /\ \E outcome \in CreateOutcomes :
        LET r == create_index(os_index, index_exists, outcome)
        IN  /\ op' = "create_index"
            /\ args' = [outcome |-> outcome, existed |-> index_exists, before |-> os_index]
            /\ ret' = [raised |-> r.raised, value |-> r.value]
            /\ sent' = <<>>
            /\ os_index' = r.index
            /\ index_exists' = r.exists
            /\ UNCHANGED <<bedrock_runtime, store, pc, run>>
    /\ UNCHANGED chat_vars

InitIndex ==
    /\ bedrock_runtime = TRUE
    /\ os_index = EmptyDict
    /\ index_exists \in BOOLEAN
    /\ store = EmptyDict
    /\ op = "idle"
    /\ args = EmptyDict
    /\ ret = [raised |-> FALSE, value |-> EmptyDict]
    /\ sent = <<>>
    /\ pc = "idle"
    /\ run = EmptyDict
    /\ InitChat

NextIndex ==
    \/ BulkIndexProducts
    \/ DeleteIndex
    \/ CreateIndex
    \/ Return

SpecIndex == InitIndex /\ [][NextIndex]_vars

---------------------------------------------------------------------------
(* The deployment-time loader: its handler, and its two writers called on the
   products its processing loop prepares *)

\* what the model answers to the loader's generate_embedding: for the first
\* product anything, for a later one a vector of length D or no vector
LambdaResponses(i) ==
    IF i = 1
    THEN { [kind |-> "raise"], [kind |-> "no_key"],
           [kind |-> "ok", embedding |-> Vec(D)], [kind |-> "ok", embedding |-> Vec(Slack)] }
    ELSE { [kind |-> "no_key"], [kind |-> "ok", embedding |-> Vec(D)] }

LambdaResponseLists(n) ==
    { s \in [1..n -> UNION { LambdaResponses(i) : i \in 1..n }] :
        \A i \in 1..n : s[i] \in LambdaResponses(i) }

\* the products the loader prepares from the first n products of its catalog
LambdaProducts(n, resps) ==
    [i \in 1..n |-> lambda_processed_product(RawProduct(i), resps[i])]

LambdaLoadToOpenSearch ==
    /\ op = "idle"
    /\ \E n \in 0..MaxProducts, connected \in BOOLEAN :
        \E resps \in LambdaResponseLists(n) :
            LET products == LambdaProducts(n, resps)
            IN  \E outcome \in BulkOutcomes(LambdaActions(products)) :
                    LET r == lambda_load_to_opensearch(os_index, products, connected, outcome)
                    IN  /\ op' = "lambda.load_to_opensearch"
                        /\ args' = [products |-> products, connected |-> connected,
                                    outcome |-> outcome]
                        /\ ret' = [raised |-> FALSE, value |-> r.value]
                        /\ sent' = BulkSent(r.actions)
                        /\ os_index' = r.index
                        /\ index_exists' = (index_exists \/ r.created)
                        /\ UNCHANGED <<bedrock_runtime, store, pc, run>>
    /\ UNCHANGED chat_vars

LambdaLoadToDynamoDB ==
    /\ op = "idle"
    /\ \E n \in 0..MaxProducts, outcome \in {"ok", "client_error"} :
        \E resps \in LambdaResponseLists(n) :
            LET products == LambdaProducts(n, resps)
                r == lambda_load_to_dynamodb(store, products, outcome)
            IN  /\ op' = "lambda.load_to_dynamodb"
                /\ args' = [products |-> products, outcome |-> outcome]
                /\ ret' = [raised |-> FALSE, value |-> r.value]
                /\ sent' = <<>>
                /\ store' = r.table
                /\ UNCHANGED <<bedrock_runtime, os_index, index_exists, pc, run>>
    /\ UNCHANGED chat_vars

\* handler: the second definition of load_catalog (line 118, no parameter)
\* shadows the first (line 44), so the call of line 21 raises TypeError and a
\* Create or Update request is answered FAILED without any write
LambdaHandler ==
    /\ op = "idle"
    /\ \E request_type \in {"Create", "Update", "Delete"} :
        /\ op' = "lambda.handler"
        /\ args' = [RequestType |-> request_type]
        /\ ret' = [raised |-> FALSE,
                   value |-> [Status |-> IF request_type = "Delete"
                                         THEN "SUCCESS" ELSE "FAILED"]]
        /\ sent' = <<>>
        /\ UNCHANGED <<bedrock_runtime, os_index, index_exists, store, pc, run>>
    /\ UNCHANGED chat_vars

NextLambda ==
    \/ LambdaLoadToOpenSearch
    \/ LambdaLoadToDynamoDB
    \/ LambdaHandler
    \/ Return

SpecLambda == InitIndex /\ [][NextLambda]_vars

---------------------------------------------------------------------------
(* full_catalog_load, stage by stage: each action runs the code between two
   awaits; pc is the stage the load is about to run and run holds its locals *)

\* what the model answers to the embed stage: for the first product anything,
\* for a later one a vector of length D
PipelineResponses(i) ==
    IF i = 1
    THEN { [kind |-> "raise"], [kind |-> "no_key"],
           [kind |-> "ok", embedding |-> Vec(D)],
           [kind |-> "ok", embedding |-> Vec(D + Slack)] }
    ELSE { [kind |-> "ok", embedding |-> Vec(D)] }

PipelineResponseLists(n) ==
    { s \in [1..n -> UNION { PipelineResponses(i) : i \in 1..n }] :
        \A i \in 1..n : s[i] \in PipelineResponses(i) }

\* the catalogs the file may hold: n products, the first of them an ordinary
\* record, a record without 'id', or a record whose price is a string (a word,
\* or digits)
CatalogKinds ==
    {"plain", "no id", "price word", "price digits",
     "bad ingredients", "late bad ingredients"}

\* ingredient lists: one of strings, one holding a number
GoodIngredients == <<Str(<<"zinc">>), Str(<<"iron">>)>>

BadIngredients == <<Str(<<"zinc">>), Float(5)>>

CatalogFirst(kind) ==
    CASE kind = "plain" -> RawProduct(1)
      [] kind = "no id" -> Del(RawProduct(1), "id")
      [] kind = "price word" -> Put(RawProduct(1), "price", Str(<<"f", "r", "e", "e">>))
      [] kind = "price digits" -> Put(RawProduct(1), "price", Str(<<"1", "0">>))
      [] kind = "bad ingredients" -> Put(RawProduct(1), "ingredients", BadIngredients)
      [] kind = "late bad ingredients" ->
            Put(RawProduct(1), "ingredients", GoodIngredients)

Catalog(kind, n) ==
    [i \in 1..n |->
        IF i = 1 THEN CatalogFirst(kind)
        ELSE IF kind = "late bad ingredients" /\ i = n
        THEN Put(RawProduct(i), "ingredients", BadIngredients)
        ELSE RawProduct(i)]

\* the call being served ends by raising
Raise(error) ==
    /\ ret' = [raised |-> TRUE, value |-> EmptyDict, error |-> error]
    /\ pc' = "idle"

\* a Load stage that drops the index before it reads the catalog
FclLoadDropsIndexFirst ==
    /\ op = "idle"
    /\ pc = "idle"
    /\ \E n \in 0..MaxProducts, vpc_mode \in BOOLEAN, file_exists \in BOOLEAN :
        LET products == Catalog("plain", n)
        IN  /\ op' = "full_catalog_load"
            /\ args' = [vpc_mode |-> vpc_mode, file_exists |-> file_exists,
                        products |-> products]
            /\ sent' = <<>>
            /\ os_index' = EmptyDict
            /\ index_exists' = FALSE
            /\ IF ~file_exists \/ products = <<>>
               THEN Raise("load error") /\ run' = EmptyDict
               ELSE /\ ret' = [raised |-> FALSE, value |-> EmptyDict]
                    /\ pc' = "process"
                    /\ run' = [products |-> products, vpc_mode |-> vpc_mode]
            /\ UNCHANGED <<bedrock_runtime, store>>
    /\ UNCHANGED chat_vars

\* lines 359-364: the Load stage reads the catalog file (load_catalog_from_file
\* raises FileNotFoundError when it is missing); an empty product list is an
\* error too
FclLoad ==
    /\ op = "idle"
    /\ pc = "idle"
    /\ \E n \in 0..MaxProducts, vpc_mode \in BOOLEAN, file_exists \in BOOLEAN :
        LET products == Catalog("plain", n)
        IN  /\ op' = "full_catalog_load"
            /\ args' = [vpc_mode |-> vpc_mode, file_exists |-> file_exists,
                        products |-> products]
            /\ sent' = <<>>
            /\ IF ~file_exists
               THEN Raise("FileNotFoundError") /\ run' = EmptyDict
               ELSE IF products = <<>>
               THEN Raise("No products found in catalog") /\ run' = EmptyDict
               ELSE /\ ret' = [raised |-> FALSE, value |-> EmptyDict]
                    /\ pc' = "process"
                    /\ run' = [products |-> products, vpc_mode |-> vpc_mode]
            /\ UNCHANGED <<bedrock_runtime, os_index, index_exists, store>>
    /\ UNCHANGED chat_vars

\* line 366: the Embed stage
FclProcess ==
    /\ pc = "process"
    /\ \E resps \in PipelineResponseLists(Len(run.products)), hash_seed \in HashSeeds :
        LET bad == ProcessRaisesAt(run.products)
            done == IF bad = 0 THEN run.products ELSE SubSeq(run.products, 1, bad - 1)
        IN  /\ sent' = sent \o ProcessInvoked(bedrock_runtime, done, resps, hash_seed, 1)
            /\ IF bad = 0
               THEN /\ run' = Put(run, "processed_products",
                                  process_products_for_search(bedrock_runtime,
                                        run.products, resps, hash_seed))
                    /\ pc' = "write_store"
                    /\ UNCHANGED ret
               ELSE Raise("TypeError") /\ UNCHANGED run
    /\ UNCHANGED <<bedrock_runtime, os_index, index_exists, store, op, args>>
    /\ UNCHANGED chat_vars

\* line 367: the Write-store stage
FclWriteStore ==
    /\ pc = "write_store"
    /\ \E outcome \in {"ok", "client_error"} :
        LET r == batch_write_products(store, run.processed_products, outcome)
        IN  /\ store' = r.table
            /\ IF r.raised
               THEN Raise("ClientError") /\ run' = Put(run, "processed_products", r.after)
               ELSE /\ run' = Put(Put(run, "processed_products", r.after),
                                  "dynamodb_result", r.value)
                    /\ pc' = "write_index"
                    /\ UNCHANGED ret
            /\ UNCHANGED <<bedrock_runtime, os_index, index_exists, op, args, sent>>
    /\ UNCHANGED chat_vars

\* line 368: the Write-index stage
FclWriteIndex ==
    /\ pc = "write_index"
    /\ \E created \in CreateOutcomes :
        \E outcome \in IF created = "ok"
                       THEN BulkOutcomes(BulkActions(run.processed_products))
                       ELSE {[kind |-> "ok", rejected |-> {}]} :
            LET r == load_to_opensearch(os_index, index_exists, run.processed_products,
                                        run.vpc_mode, created, outcome)
            IN  /\ os_index' = r.index
                /\ index_exists' = r.exists
                /\ sent' = sent \o BulkSent(r.actions)
                /\ IF r.raised
                   THEN Raise(r.error) /\ run' = Put(run, "processed_products", r.after)
                   ELSE /\ run' = Put(Put(run, "processed_products", r.after),
                                      "opensearch_result", r.value)
                        /\ pc' = "report"
                        /\ UNCHANGED ret
                /\ UNCHANGED <<bedrock_runtime, store, op, args>>
    /\ UNCHANGED chat_vars

\* lines 370-389: the result
FclReport ==
    /\ pc = "report"
    /\ ret' = [raised |-> FALSE,
               value |-> LoadResult(run.products, run.dynamodb_result,
                                    run.opensearch_result, run.vpc_mode)]
    /\ pc' = "idle"
    /\ UNCHANGED <<bedrock_runtime, os_index, index_exists, store, op, args, sent, run>>
    /\ UNCHANGED chat_vars

\* the first load of a deployment, store and index still empty, on any of the
\* catalogs
FclFirstLoad ==
    /\ op = "idle"
    /\ pc = "idle"
    /\ store = EmptyDict
    /\ os_index = EmptyDict
    /\ ~index_exists
    /\ \E n \in 0..MaxProducts, kind \in CatalogKinds,
          vpc_mode \in BOOLEAN, file_exists \in BOOLEAN :
        LET products == Catalog(kind, n)
        IN  /\ op' = "full_catalog_load"
            /\ args' = [vpc_mode |-> vpc_mode, file_exists |-> file_exists,
                        products |-> products]
            /\ sent' = <<>>
            /\ IF ~file_exists
               THEN Raise("FileNotFoundError") /\ run' = EmptyDict
               ELSE IF products = <<>>
               THEN Raise("No products found in catalog") /\ run' = EmptyDict
               ELSE /\ ret' = [raised |-> FALSE, value |-> EmptyDict]
                    /\ pc' = "process"
                    /\ run' = [products |-> products, vpc_mode |-> vpc_mode]
            /\ UNCHANGED <<bedrock_runtime, os_index, index_exists, store>>
    /\ UNCHANGED chat_vars

\* a model vector of length n for the i-th product: no two products share one
ProductVec(i, n) == [k \in 1..n |-> 1 + ((k + i) % 7)]

\* what the model answers to the embed stage of a first load: for any product
\* an error or its vector, for the first one also a body without 'embedding'
\* or a vector that is too long
FirstLoadResponses(i) ==
    { [kind |-> "raise"], [kind |-> "ok", embedding |-> ProductVec(i, D)] }
        \cup (IF i = 1
              THEN { [kind |-> "no_key"],
                     [kind |-> "ok", embedding |-> ProductVec(i, D + Slack)] }
              ELSE {})

FirstLoadResponseLists(n) ==
    { s \in [1..n -> UNION { FirstLoadResponses(i) : i \in 1..n }] :
        \A i \in 1..n : s[i] \in FirstLoadResponses(i) }

\* an Embed stage that skips the records it cannot handle and goes on
FclFirstProcessSkipsBadRecords ==
    /\ pc = "process"
    /\ \E resps \in FirstLoadResponseLists(Len(run.products)), hash_seed \in HashSeeds :
        LET Good(p) == ~_create_searchable_text_raises(p)
            good == SelectSeq(run.products, Good)
        IN  /\ sent' = sent \o ProcessInvoked(bedrock_runtime, good, resps, hash_seed, 1)
            /\ run' = Put(Put(run, "processed_products",
                              process_products_for_search(bedrock_runtime, good,
                                                          resps, hash_seed)),
                          "responses", resps)
            /\ pc' = "write_store"
            /\ UNCHANGED ret
    /\ UNCHANGED <<bedrock_runtime, os_index, index_exists, store, op, args>>
    /\ UNCHANGED chat_vars

\* line 366: the Embed stage of a first load; run.responses keeps what the
\* model answered
FclFirstProcess ==
    /\ pc = "process"
    /\ \E resps \in FirstLoadResponseLists(Len(run.products)), hash_seed \in HashSeeds :
        LET bad == ProcessRaisesAt(run.products)
            done == IF bad = 0 THEN run.products ELSE SubSeq(run.products, 1, bad - 1)
        IN  /\ sent' = sent \o ProcessInvoked(bedrock_runtime, done, resps, hash_seed, 1)
            /\ IF bad = 0
               THEN /\ run' = Put(Put(run, "processed_products",
                                      process_products_for_search(bedrock_runtime,
                                            run.products, resps, hash_seed)),
                                  "responses", resps)
                    /\ pc' = "write_store"
                    /\ UNCHANGED ret
               ELSE Raise("TypeError") /\ UNCHANGED run
    /\ UNCHANGED <<bedrock_runtime, os_index, index_exists, store, op, args>>
    /\ UNCHANGED chat_vars

InitLoad ==
    /\ bedrock_runtime \in BOOLEAN
    /\ os_index = EmptyDict
    /\ index_exists = FALSE
    /\ store = EmptyDict
    /\ op = "idle"
    /\ args = EmptyDict
    /\ ret = [raised |-> FALSE, value |-> EmptyDict]
    /\ sent = <<>>
    /\ pc = "idle"
    /\ run = EmptyDict
    /\ InitChat

NextLoad ==
    \/ FclLoad
    \/ FclProcess
    \/ FclWriteStore
    \/ FclWriteIndex
    \/ FclReport
    \/ Return

SpecLoad == InitLoad /\ [][NextLoad]_vars

NextFirstLoad ==
    \/ FclFirstLoad
    \/ FclFirstProcess
    \/ FclWriteStore
    \/ FclWriteIndex
    \/ FclReport
    \/ Return

\* the first load of a deployment
SpecFirstLoad == InitLoad /\ [][NextFirstLoad]_vars

---------------------------------------------------------------------------
(* SearchIndex, queries: services/opensearch_service.py *)

\* the largest page size a caller asks for
MaxSize == 2

\* size * 3 and the floor of 50 candidates (line 648)
OverFetchFactor == 3

OverFetchFloor == 50

Max(a, b) == IF a > b THEN a ELSE b

Min(a, b) == IF a < b THEN a ELSE b

\* a float that is the quotient of two score differences, kept exact
Ratio(n, d) == [num |-> n, den |-> d]

\* a >= b for two such floats (denominators are positive)
RatioGE(a, b) == a.num * b.den >= b.num * a.den

\* filters.get(k) is truthy: the key is there and its value is neither None,
\* nor 0, nor the empty string
TruthyNumber(filters, k) == Has(filters, k) /\ filters[k] # 0

TruthyText(filters, k) == Has(filters, k) /\ filters[k] # ""

\* lines 557-584: the filter clauses of search_products
search_products_filter_clauses(filters) ==
    IF filters = EmptyDict
    THEN <<>>
    ELSE (IF TruthyText(filters, "category")
          THEN <<[kind |-> "term", field |-> "category.keyword", value |-> filters.category]>>
          ELSE <<>>)
      \o (IF TruthyText(filters, "brand")
          THEN <<[kind |-> "term", field |-> "brand.keyword", value |-> filters.brand]>>
          ELSE <<>>)
      \o (IF TruthyNumber(filters, "price_min") \/ TruthyNumber(filters, "price_max")
          THEN LET r0 == EmptyDict
                   r1 == IF TruthyNumber(filters, "price_min")
                         THEN Put(r0, "gte", filters.price_min) ELSE r0
                   price_range == IF TruthyNumber(filters, "price_max")
                                  THEN Put(r1, "lte", filters.price_max) ELSE r1
               IN  <<[kind |-> "range", field |-> "price", bounds |-> price_range]>>
          ELSE <<>>)
      \o (IF TruthyNumber(filters, "rating_min")
          THEN <<[kind |-> "range", field |-> "rating",
                  bounds |-> Put(EmptyDict, "gte", filters.rating_min)]>>
          ELSE <<>>)

\* lines 663-690: the filter clauses of semantic_search
semantic_search_filter_clauses(filters) ==
    IF filters = EmptyDict
    THEN <<>>
    ELSE LET category == IF TruthyText(filters, "category")
                         THEN <<[kind |-> "term", field |-> "category.keyword",
                                 value |-> filters.category]>>
                         ELSE <<>>
             brand == IF TruthyText(filters, "brand")
                      THEN <<[kind |-> "term", field |-> "brand.keyword",
                              value |-> filters.brand]>>
                      ELSE <<>>
             gte == IF TruthyNumber(filters, "price_min")
                    THEN Put(EmptyDict, "gte", filters.price_min) ELSE EmptyDict
             price_range == IF TruthyNumber(filters, "price_max")
                            THEN Put(gte, "lte", filters.price_max) ELSE gte
             price == IF TruthyNumber(filters, "price_min") \/ TruthyNumber(filters, "price_max")
                      THEN <<[kind |-> "range", field |-> "price", bounds |-> price_range]>>
                      ELSE <<>>
             rating == IF TruthyNumber(filters, "rating_min")
                       THEN <<[kind |-> "range", field |-> "rating",
                               bounds |-> Put(EmptyDict, "gte", filters.rating_min)]>>
                       ELSE <<>>
         IN  category \o brand \o price \o rating

\* lines 517-587: the body of the keyword query
KeywordSearchBody(query, filters, size) ==
    [kind |-> "multi_match", query |-> query, size |-> size, from |-> 0,
     excludes |-> {"embedding"}, filter |-> search_products_filter_clauses(filters)]

\* lines 647-700: the body of the vector query
SemanticSearchBody(query_embedding, filters, size) ==
    [kind |-> "knn", vector |-> query_embedding,
     k |-> Max(size * OverFetchFactor, OverFetchFloor),
     size |-> Max(size * OverFetchFactor, OverFetchFloor),
     excludes |-> {"embedding"}, filter |-> semantic_search_filter_clauses(filters)]

\* the engine: the document field a clause is about
ClauseField(clause) ==
    IF clause.field = "category.keyword" THEN "category"
    ELSE IF clause.field = "brand.keyword" THEN "brand"
    ELSE clause.field

\* the engine: a document passes a filter clause
DocMatches(doc, clause) ==
    /\ Has(doc, ClauseField(clause))
    /\ IF clause.kind = "term"
       THEN doc[ClauseField(clause)] = clause.value
       ELSE /\ Has(clause.bounds, "gte") => doc[clause.field] >= clause.bounds.gte
            /\ Has(clause.bounds, "lte") => doc[clause.field] <= clause.bounds.lte

\* the engine: the ids of the documents that pass every filter clause of a body
Candidates(idx, body) ==
    { id \in DOMAIN idx :
        \A c \in 1..Len(body.filter) : DocMatches(idx[id], body.filter[c]) }

\* the raw scores the engine gives
Scores == {0, 1, 2}

\* the engine: _source of a hit; the excluded fields are left out when the
\* engine honours _source.excludes
HitSource(doc, body, honours) ==
    IF honours THEN [k \in (DOMAIN doc) \ body.excludes |-> doc[k]] ELSE doc

\* the engine: the hits for the documents s, ranked in that order, scored sc
EngineHits(idx, body, s, sc, honours) ==
    [i \in 1..Len(s) |->
        [_id |-> s[i], _score |-> sc[i], _source |-> HitSource(idx[s[i]], body, honours)]]

\* the engine: the answers to a search body.  The hits are distinct documents
\* among those that pass the filter, at most body.size of them, in the order
\* the engine ranks them, each with a raw score; or the request fails
EngineResponses(idx, body, scores) ==
    LET C == Candidates(idx, body)
        most == Min(Cardinality(C), body.size)
        orders == { s \in UNION { [1..n -> C] : n \in 0..most } :
                      \A i, j \in 1..Len(s) : i # j => s[i] # s[j] }
    IN  { [kind |-> "raise"] } \cup
        UNION { { [kind |-> "ok", total |-> Cardinality(C),
                   hits |-> EngineHits(idx, body, s, sc, honours)] :
                    sc \in [1..Len(s) -> scores], honours \in BOOLEAN }
                : s \in orders }

\* the engine: the answers to a keyword body.  Some of the documents that pass
\* the filter match the text; total counts them all and the hits are the best
\* body.size of them (all when fewer match), distinct, in the engine's order
KeywordResponses(idx, body, scores) ==
    { [kind |-> "raise"] } \cup
    UNION { { [kind |-> "ok", total |-> Cardinality(M),
               hits |-> EngineHits(idx, body, s, sc, honours)] :
                s \in { t \in [1..Min(Cardinality(M), body.size) -> M] :
                          \A i, j \in 1..Len(t) : i # j => t[i] # t[j] },
                sc \in [1..Min(Cardinality(M), body.size) -> scores],
                honours \in BOOLEAN }
            : M \in SUBSET Candidates(idx, body) }

\* (end_time - start_time).total_seconds() * 1000: the time the engine took
Elapsed == "elapsed"

\* lines 713-715: max(all_scores), min(all_scores), 0 when there is no hit
MaxScore(hits) ==
    IF hits = <<>> THEN 0
    ELSE CHOOSE m \in { hits[i]._score : i \in 1..Len(hits) } :
            \A i \in 1..Len(hits) : hits[i]._score <= m

MinScore(hits) ==
    IF hits = <<>> THEN 0
    ELSE CHOOSE m \in { hits[i]._score : i \in 1..Len(hits) } :
            \A i \in 1..Len(hits) : hits[i]._score >= m

\* a normalisation that divides by the largest score only
NormaliseByMax(raw_score, min_score, max_score) ==
    IF max_score > 0 THEN Ratio(raw_score, max_score) ELSE Ratio(0, 1)

\* a normalisation that gives 0.0 to every hit when all raw scores are equal
NormaliseEqualScoresToZero(raw_score, min_score, max_score) ==
    IF max_score > min_score
    THEN Ratio(raw_score - min_score, max_score - min_score)
    ELSE Ratio(0, 1)

\* lines 725-728: the normalised similarity of a raw score
Normalise(raw_score, min_score, max_score) ==
    IF max_score > min_score
    THEN Ratio(raw_score - min_score, max_score - min_score)
    ELSE IF raw_score > 0 THEN Ratio(1, 1) ELSE Ratio(0, 1)

\* lines 732-736: the result made of a hit
SemanticResult(hit, normalized_similarity) ==
    Put(Put(Put(hit._source, "_score", hit._score),
            "similarity", normalized_similarity),
        "raw_score", hit._score)

\* a loop that keeps every hit, whatever its similarity
RECURSIVE ThresholdLoopKeepsAll(_, _, _, _, _, _)
ThresholdLoopKeepsAll(hits, i, min_score, max_score, similarity_threshold, results) ==
    IF i > Len(hits)
    THEN results
    ELSE ThresholdLoopKeepsAll(hits, i + 1, min_score, max_score, similarity_threshold,
            Append(results,
                   SemanticResult(hits[i], Normalise(hits[i]._score, min_score, max_score))))

\* lines 720-736: the loop over hits[i..] that keeps the hits whose similarity
\* reaches the threshold
RECURSIVE ThresholdLoop(_, _, _, _, _, _)
ThresholdLoop(hits, i, min_score, max_score, similarity_threshold, results) ==
    IF i > Len(hits)
    THEN results
    ELSE LET normalized_similarity == Normalise(hits[i]._score, min_score, max_score)
         IN  ThresholdLoop(hits, i + 1, min_score, max_score, similarity_threshold,
                IF RatioGE(normalized_similarity, similarity_threshold)
                THEN Append(results, SemanticResult(hits[i], normalized_similarity))
                ELSE results)

\* a check that lets every query vector through
QueryDimensionUnchecked(query_embedding) == FALSE

\* line 643: the query vector has not D elements
QueryDimensionError(query_embedding) == Len(query_embedding) # D

\* semantic_search(query_embedding, filters, size, similarity_threshold) when
\* the engine answers with response: [raised, value, sent]
semantic_search(query_embedding, filters, size, similarity_threshold, response) ==
    IF QueryDimensionError(query_embedding)
    THEN [raised |-> TRUE, error |-> "ValueError", value |-> EmptyDict, sent |-> <<>>]
    ELSE LET search_body == SemanticSearchBody(query_embedding, filters, size)
             request == <<[to |-> "search", body |-> search_body]>>
         IN  IF response.kind = "raise"
             THEN [raised |-> TRUE, error |-> "engine error", value |-> EmptyDict,
                   sent |-> request]
             ELSE LET hits == response.hits
                      max_score == MaxScore(hits)
                      min_score == MinScore(hits)
                      results == ThresholdLoop(hits, 1, min_score, max_score,
                                               similarity_threshold, <<>>)
                      page == FirstN(results, size)
                  IN  [raised |-> FALSE, error |-> "",
                       value |-> [total_hits |-> Len(page),
                                  total_candidates |-> Len(hits),
                                  results |-> page,
                                  similarity_threshold |-> similarity_threshold,
                                  took_ms |-> Elapsed,
                                  max_score |-> max_score,
                                  score_range |-> [min |-> min_score, max |-> max_score]],
                       sent |-> request]

\* a loop that leaves the last hit out
KeywordResultsButLast(hits) ==
    [i \in 1..(Len(hits) - 1) |-> Put(hits[i]._source, "_score", hits[i]._score)]

\* lines 608-613: one result per hit, in the order of the hits
KeywordResults(hits) ==
    [i \in 1..Len(hits) |-> Put(hits[i]._source, "_score", hits[i]._score)]

\* search_products(query, filters, size) when the engine answers with
\* response: [raised, value, sent]
search_products(query, filters, size, response) ==
    LET search_body == KeywordSearchBody(query, filters, size)
        request == <<[to |-> "search", body |-> search_body]>>
    IN  IF response.kind = "raise"
        THEN [raised |-> TRUE, error |-> "engine error", value |-> EmptyDict,
              sent |-> request]
        ELSE LET hits == response.hits
                 results == KeywordResults(hits)
             IN  [raised |-> FALSE, error |-> "",
                  value |-> [query |-> query,
                             total_hits |-> response.total,
                             results |-> results,
                             from |-> 0,
                             size |-> size,
                             took_ms |-> Elapsed,
                             max_score |-> MaxScore(hits)],
                  sent |-> request]

\* similarity_threshold when the caller passes none (line 637)
NoThreshold == Ratio(0, 1)

\* a router that answers a zero query vector with the keyword search
RouterFallsBackToKeyword(client, query, search_type, filters, size, resp, response) ==
    LET e == generate_embeddings(client, query, resp)
    IN  IF search_type = "semantic" /\ e.raised
        THEN [raised |-> TRUE, error |-> "ValueError", value |-> EmptyDict,
              sent |-> e.invoked]
        ELSE IF search_type = "semantic" /\ e.value # ZeroVector
        THEN LET r == semantic_search(e.value, filters, size, NoThreshold, response)
             IN  [raised |-> r.raised, error |-> r.error,
                  value |-> IF r.raised THEN EmptyDict
                            ELSE Put(r.value, "search_type", "semantic"),
                  sent |-> e.invoked \o r.sent]
        ELSE LET r == search_products(query, filters, size, response)
             IN  [raised |-> r.raised, error |-> r.error,
                  value |-> IF r.raised THEN EmptyDict
                            ELSE Put(r.value, "search_type", "keyword"),
                  sent |-> (IF search_type = "semantic" THEN e.invoked ELSE <<>>)
                               \o r.sent]

\* search_products_by_query(query, search_type, filters, size) of
\* utils/catalog_loader.py, when the model answers resp and the engine response
search_products_by_query(client, query, search_type, filters, size, resp, response) ==
    IF search_type = "semantic"
    THEN LET e == generate_embeddings(client, query, resp)
         IN  IF e.raised
             THEN [raised |-> TRUE, error |-> "ValueError", value |-> EmptyDict,
                   sent |-> e.invoked]
             ELSE LET r == semantic_search(e.value, filters, size, NoThreshold, response)
                  IN  [raised |-> r.raised, error |-> r.error,
                       value |-> IF r.raised THEN EmptyDict
                                 ELSE Put(r.value, "search_type", "semantic"),
                       sent |-> e.invoked \o r.sent]
    ELSE LET r == search_products(query, filters, size, response)
         IN  [raised |-> r.raised, error |-> r.error,
              value |-> IF r.raised THEN EmptyDict
                        ELSE Put(r.value, "search_type", "keyword"),
              sent |-> r.sent]

\* the catalog the searched index holds
SearchCatalog ==
    << [id |-> "p1", name |-> <<"name", "p1">>, category |-> "Vitamins",
        brand |-> "Acme", price |-> 10, rating |-> 5],
       [id |-> "p2", name |-> <<"name", "p2">>, category |-> "Vitamins",
        brand |-> "Zen", price |-> 20, rating |-> 3],
       [id |-> "p3", name |-> <<"name", "p3">>, category |-> "Herbs",
        brand |-> "Acme", price |-> 30, rating |-> 4] >>

\* the index after bulk_index_products wrote that catalog
IndexedCatalog ==
    EngineBulk(EmptyDict,
               BulkActions([i \in 1..Len(SearchCatalog) |->
                               Put(SearchCatalog[i], "embedding", Vec(D))]),
               {}, 1)

\* the filters a caller supplies
SearchFilters ==
    { EmptyDict,
      [category |-> "Vitamins"],
      [brand |-> "Acme"],
      [price_min |-> 15],
      [price_max |-> 15],
      [price_max |-> 0],
      [rating_min |-> 4],
      [category |-> "Herbs", price_min |-> 0, price_max |-> 20] }

\* the similarity thresholds a caller supplies
Thresholds == { Ratio(0, 1), Ratio(1, 2), Ratio(1, 1) }

\* the raw scores of the hits of the router's and of the keyword queries
FewScores == {1, 2}

QueryTexts == { <<"a", "b">>, <<" ">> }

SemanticSearch ==
    /\ op = "idle"
    /\ \E query_embedding \in { Vec(n) : n \in VecLens }, filters \in SearchFilters,
          size \in 1..MaxSize, similarity_threshold \in Thresholds :
        \E response \in IF QueryDimensionError(query_embedding)
                        THEN { [kind |-> "raise"] }
                        ELSE EngineResponses(os_index,
                                SemanticSearchBody(query_embedding, filters, size), Scores) :
            LET r == semantic_search(query_embedding, filters, size,
                                     similarity_threshold, response)
            IN  /\ op' = "semantic_search"
                /\ args' = [query_embedding |-> query_embedding, filters |-> filters,
                            size |-> size, similarity_threshold |-> similarity_threshold,
                            response |-> response]
                /\ ret' = [raised |-> r.raised, value |-> r.value]
                /\ sent' = r.sent
                /\ UNCHANGED <<bedrock_runtime, os_index, index_exists, store, pc, run>>
    /\ UNCHANGED chat_vars

SearchProducts ==
    /\ op = "idle"
    /\ \E query \in QueryTexts, filters \in SearchFilters, size \in 1..MaxSize :
        \E response \in KeywordResponses(os_index,
                            KeywordSearchBody(query, filters, size), FewScores) :
            LET r == search_products(query, filters, size, response)
            IN  /\ op' = "search_products"
                /\ args' = [query |-> query, filters |-> filters, size |-> size,
                            response |-> response]
                /\ ret' = [raised |-> r.raised, value |-> r.value]
                /\ sent' = r.sent
                /\ UNCHANGED <<bedrock_runtime, os_index, index_exists, store, pc, run>>
    /\ UNCHANGED chat_vars

\* the search body the router's call ends up sending, if any
RouterBody(client, query, search_type, filters, size, resp) ==
    IF search_type = "semantic"
    THEN SemanticSearchBody(generate_embeddings(client, query, resp).value, filters, size)
    ELSE KeywordSearchBody(query, filters, size)

SearchProductsByQuery ==
    /\ op = "idle"
    /\ \E query \in QueryTexts, search_type \in {"keyword", "semantic"},
          filters \in SearchFilters, size \in 1..MaxSize,
          resp \in { [kind |-> "raise"], [kind |-> "ok", embedding |-> Vec(D - Slack)] } :
        \E response \in
                IF search_type = "semantic"
                       /\ generate_embeddings(bedrock_runtime, query, resp).raised
                THEN { [kind |-> "raise"] }
                ELSE IF search_type = "semantic"
                THEN EngineResponses(os_index,
                        RouterBody(bedrock_runtime, query, search_type, filters, size, resp),
                        FewScores)
                ELSE KeywordResponses(os_index,
                        RouterBody(bedrock_runtime, query, search_type, filters, size, resp),
                        FewScores) :
            LET r == search_products_by_query(bedrock_runtime, query, search_type,
                                              filters, size, resp, response)
            IN  /\ op' = "search_products_by_query"
                /\ args' = [query |-> query, search_type |-> search_type,
                            filters |-> filters, size |-> size, resp |-> resp,
                            response |-> response]
                /\ ret' = [raised |-> r.raised, value |-> r.value]
                /\ sent' = r.sent
                /\ UNCHANGED <<bedrock_runtime, os_index, index_exists, store, pc, run>>
    /\ UNCHANGED chat_vars

InitSearch ==
    /\ bedrock_runtime \in BOOLEAN
    /\ os_index = IndexedCatalog
    /\ index_exists = TRUE
    /\ store = EmptyDict
    /\ op = "idle"
    /\ args = EmptyDict
    /\ ret = [raised |-> FALSE, value |-> EmptyDict]
    /\ sent = <<>>
    /\ pc = "idle"
    /\ run = EmptyDict
    /\ InitChat

NextSearch ==
    \/ SemanticSearch
    \/ SearchProducts
    \/ SearchProductsByQuery
    \/ Return

SpecSearch == InitSearch /\ [][NextSearch]_vars

---------------------------------------------------------------------------
(* Properties of the embedding generator, checked under SpecEmbed *)

\* the call of generate_embeddings that completed last met a failure: no client,
\* nothing to embed, a failed invocation, or a response without a vector
EmbedCallFailed ==
    \/ ~bedrock_runtime
    \/ sent = <<>>
    \/ args.resp.kind \in {"raise", "no_key"}
    \/ args.resp.embedding = <<>>

\* C4 (as claimed): generate_embeddings never propagates an exception; on any
\* failure, an uninitialised client included, it returns the zero vector of
\* length D.
C4_NeverPropagates ==
    op = "generate_embeddings" =>
        /\ ~ret.raised
        /\ EmbedCallFailed => ret.value = ZeroVector

\* C5: whenever generate_embeddings returns a vector it has exactly D elements;
\* a model vector longer than D yields its first D elements, a shorter one its
\* elements followed by zeros, one of length D is returned unchanged.
C5_DimensionNormalised ==
    (op = "generate_embeddings" /\ ~ret.raised) =>
        /\ Len(ret.value) = D
        /\ (sent # <<>> /\ args.resp.kind = "ok") =>
              LET e == args.resp.embedding
              IN  /\ \A i \in 1..D :
                        ret.value[i] = IF i <= Len(e) THEN e[i] ELSE 0
                  /\ Len(e) = D => ret.value = e

\* C5 witness: the model answered with more than D elements and the call
\* returned the first D of them
C5_Witness ==
    /\ op = "generate_embeddings"
    /\ ~ret.raised
    /\ sent # <<>>
    /\ args.resp.kind = "ok"
    /\ Len(args.resp.embedding) > D
    /\ ret.value = SubSeq(args.resp.embedding, 1, D)

\* item i of the batch that completed last met a failure
BatchItemFailed(i) ==
    \/ ~bedrock_runtime
    \/ args.texts[i] = <<" ">>
    \/ args.resps[i].kind = "raise"

\* C6: generate_embeddings_batch returns one vector per input text, in input
\* order; a failed item yields the zero vector at its own position and every
\* other item keeps the vector the model produced for it.
C6_BatchIndependent ==
    op = "generate_embeddings_batch" =>
        /\ ~ret.raised
        /\ Len(ret.value) = Len(args.texts)
        /\ \A i \in 1..Len(args.texts) :
              /\ Len(ret.value[i]) = D
              /\ BatchItemFailed(i) => ret.value[i] = ZeroVector
              /\ ~BatchItemFailed(i) =>
                    LET e == args.resps[i].embedding
                    IN  \A k \in 1..D :
                            ret.value[i][k] = IF k <= Len(e) THEN e[k] ELSE 0

\* C6 witness: a batch whose first item failed and whose second item kept the
\* model's vector
C6_Witness ==
    /\ op = "generate_embeddings_batch"
    /\ Len(args.texts) >= 2
    /\ bedrock_runtime
    /\ args.resps[1].kind = "raise"
    /\ ret.value[1] = ZeroVector
    /\ args.texts[2] # <<" ">>
    /\ args.resps[2].kind = "ok"
    /\ Len(args.resps[2].embedding) = D
    /\ ret.value[2] = args.resps[2].embedding

---------------------------------------------------------------------------
(* Properties of the index writers *)

\* every document of every bulk request the call being served handed to the
\* engine carries an embedding of exactly D elements
HandedEmbeddingsHaveD ==
    \A r \in 1..Len(sent) :
        sent[r].to = "bulk" =>
            \A i \in 1..Len(sent[r].actions) :
                LET doc == sent[r].actions[i]._source
                IN  Has(doc, "embedding") /\ Len(doc.embedding) = D

BulkIndexNormalises ==
    op = "bulk_index_products" => HandedEmbeddingsHaveD

---------------------------------------------------------------------------
(* Properties of the full catalog load, checked under SpecLoad *)

\* C3 (as claimed): in a full catalog load no record written to the document
\* store contains the 'embedding' field, while every document written to the
\* index carries its vector.
C3_StoreRecordsHaveNoEmbedding ==
    /\ \A id \in DOMAIN store : ~Has(store[id], "embedding")
    /\ \A id \in DOMAIN os_index : Has(os_index[id], "embedding")

---------------------------------------------------------------------------
(* Properties of the searches, checked under SpecSearch *)

\* C2 (as claimed): every result search_products_by_query returns, in keyword
\* and in semantic mode, has no 'embedding' field, also when the hit the engine
\* returned still contains one.
C2_RouterStripsEmbedding ==
    (op = "search_products_by_query" /\ ~ret.raised) =>
        \A i \in 1..Len(ret.value.results) : ~Has(ret.value.results[i], "embedding")

\* what keeps the embedding out of the router's results: both search bodies ask
\* the engine to leave it out of _source
RouterResultsFollowEngine ==
    (op = "search_products_by_query" /\ ~ret.raised) =>
        /\ \A r \in 1..Len(sent) :
              sent[r].to = "search" => "embedding" \in sent[r].body.excludes
        /\ \A i \in 1..Len(ret.value.results) :
              Has(ret.value.results[i], "embedding")
                  <=> Has(args.response.hits[i]._source, "embedding")

\* the call being served ran a vector search that the engine answered
SemanticAnswered ==
    /\ \/ op = "semantic_search"
       \/ op = "search_products_by_query" /\ args.search_type = "semantic"
    /\ ~ret.raised

\* C7: every reported similarity lies in [0,1] and is the min-max position of
\* the raw score among the raw scores of this query's candidates: 1.0 for the
\* maximum, 0.0 for the minimum, and when all raw scores are equal 1.0 if the
\* score is positive and 0.0 otherwise.
C7_MinMaxNormalisation ==
    SemanticAnswered =>
        LET hits == args.response.hits
            S == { hits[k]._score : k \in 1..Len(hits) }
        IN  \A i \in 1..Len(ret.value.results) :
              LET r == ret.value.results[i]
                  s == r.similarity
              IN  /\ s.den > 0 /\ 0 <= s.num /\ s.num <= s.den
                  /\ r.raw_score \in S
                  /\ \A hi, lo \in S :
                        ((\A x \in S : lo <= x /\ x <= hi)) =>
                            /\ hi > lo =>
                                 /\ s.num * (hi - lo) = (r.raw_score - lo) * s.den
                                 /\ r.raw_score = hi => s.num = s.den
                                 /\ r.raw_score = lo => s.num = 0
                            /\ hi = lo =>
                                 IF r.raw_score > 0 THEN s.num = s.den ELSE s.num = 0

\* C7 witness: a vector search reported the similarity 1.0 for its best
\* candidate and 0.0 for its worst
C7_Witness ==
    /\ op = "semantic_search"
    /\ ~ret.raised
    /\ Len(ret.value.results) = 2
    /\ ret.value.results[1].raw_score > ret.value.results[2].raw_score
    /\ ret.value.results[1].similarity = Ratio(1, 1)
    /\ ret.value.results[2].similarity.num = 0

\* the positions of the hits whose min-max similarity reaches the threshold
Passing(hits, similarity_threshold) ==
    { i \in 1..Len(hits) :
        RatioGE(Normalise(hits[i]._score, MinScore(hits), MaxScore(hits)),
                similarity_threshold) }

\* C8: when the engine answers, semantic_search raises nothing and its results
\* are the first `size` hits, in the engine's order, among those whose
\* similarity reaches the threshold: none other, none twice, none added, and
\* total_hits counts them (0 when no hit reaches the threshold).
C8_FirstSizePassingInOrder ==
    (op = "semantic_search" /\ Len(args.query_embedding) = D
        /\ args.response.kind = "ok") =>
        LET hits == args.response.hits
            passing == Passing(hits, args.similarity_threshold)
            results == ret.value.results
        IN  /\ ~ret.raised
            /\ Len(results) = Min(args.size, Cardinality(passing))
            /\ ret.value.total_hits = Len(results)
            /\ \A j \in 1..Len(results) :
                  \E i \in passing :
                      /\ Cardinality({ p \in passing : p <= i }) = j
                      /\ results[j].id = hits[i]._source.id
                      /\ results[j].raw_score = hits[i]._score

\* C8 witness: of three hits the second missed the threshold, and the page of
\* two holds the first and the third, in that order
C8_Witness ==
    /\ op = "semantic_search"
    /\ ~ret.raised
    /\ Len(args.query_embedding) = D
    /\ args.response.kind = "ok"
    /\ Len(args.response.hits) = 3
    /\ Passing(args.response.hits, args.similarity_threshold) = {1, 3}
    /\ Len(ret.value.results) = 2
    /\ ret.value.results[1].id = args.response.hits[1]._source.id
    /\ ret.value.results[2].id = args.response.hits[3]._source.id

\* C9: semantic_search called with a query vector whose length is not D raises
\* and sends nothing to the engine; a vector search never sends a vector other
\* than the caller's.
C9_WrongDimensionIsHardError ==
    op = "semantic_search" =>
        /\ Len(args.query_embedding) # D => (ret.raised /\ sent = <<>>)
        /\ \A r \in 1..Len(sent) :
              sent[r].to = "search" => sent[r].body.vector = args.query_embedding

\* C9 witness: a query vector one element short of D was refused
C9_Witness ==
    /\ op = "semantic_search"
    /\ Len(args.query_embedding) = D - Slack
    /\ ret.raised
    /\ sent = <<>>

\* result satisfies every filter the caller supplied
SatisfiesFilters(result, filters) ==
    /\ Has(filters, "category") => result.category = filters.category
    /\ Has(filters, "brand") => result.brand = filters.brand
    /\ Has(filters, "price_min") => result.price >= filters.price_min
    /\ Has(filters, "price_max") => result.price <= filters.price_max
    /\ Has(filters, "rating_min") => result.rating >= filters.rating_min

\* C10 (as claimed): keyword search and vector search build the same filter
\* constraints, and every supplied filter, a bound of 0 included, is enforced
\* on every returned result.
C10_FiltersEnforced ==
    (op \in {"semantic_search", "search_products"} /\ ~ret.raised) =>
        /\ search_products_filter_clauses(args.filters)
              = semantic_search_filter_clauses(args.filters)
        /\ \A i \in 1..Len(ret.value.results) :
              SatisfiesFilters(ret.value.results[i], args.filters)

\* what holds of the filters: the two searches build the same clauses, and a
\* supplied filter is enforced unless its value is 0
TruthyFiltersEnforced ==
    (op \in {"semantic_search", "search_products"} /\ ~ret.raised) =>
        /\ search_products_filter_clauses(args.filters)
              = semantic_search_filter_clauses(args.filters)
        /\ \A i \in 1..Len(ret.value.results) :
              SatisfiesFilters(ret.value.results[i],
                  [k \in { x \in DOMAIN args.filters :
                              x \in {"category", "brand"} \/ args.filters[x] # 0 }
                      |-> args.filters[k]])


\* C11: a keyword search (offset 0) that the engine answers, m documents
\* matching, raises nothing and returns min(m, size) results, one per hit and
\* in the order of the hits, with total_hits = m; m = 0 gives the empty list
\* and total_hits = 0.
C11_KeywordPage ==
    (op = "search_products" /\ args.response.kind = "ok") =>
        LET m == args.response.total
            results == ret.value.results
        IN  /\ ~ret.raised
            /\ Len(results) = Min(m, args.size)
            /\ ret.value.total_hits = m
            /\ \A i \in 1..Len(results) :
                  results[i].id = args.response.hits[i]._source.id
            /\ m = 0 => (results = <<>> /\ ret.value.total_hits = 0)

\* C11 witness: three documents matched, the page size was two, and the call
\* returned two results with total_hits = 3
C11_Witness ==
    /\ op = "search_products"
    /\ ~ret.raised
    /\ args.size = 2
    /\ args.response.total = 3
    /\ Len(ret.value.results) = 2
    /\ ret.value.total_hits = 3


---------------------------------------------------------------------------
(* Properties of the index lifecycle, checked under SpecIndex *)

\* C12: delete_index on an absent index, the engine answering, returns without
\* raising and changes nothing, and after any answered delete_index the index
\* is absent (deleting twice equals deleting once); a create_index that returns
\* leaves the index present and empty, whatever the index held before, and it
\* returns whenever the engine answers.
C12_LifecycleIdempotent ==
    /\ (op = "delete_index" /\ args.outcome = "ok") =>
          /\ ~ret.raised
          /\ ~index_exists /\ os_index = EmptyDict
          /\ ~args.existed => (ret.value.deleted = FALSE /\ os_index = args.before)
    /\ op = "create_index" =>
          /\ args.outcome = "ok" => ~ret.raised
          /\ ~ret.raised => (index_exists /\ os_index = EmptyDict)

\* C12 witness: create_index on an index that held documents returned and
\* left the index present and empty
C12_Witness ==
    /\ op = "create_index"
    /\ args.existed
    /\ args.before # EmptyDict
    /\ ~ret.raised
    /\ index_exists
    /\ os_index = EmptyDict


---------------------------------------------------------------------------
(* Properties of bulk_index_products, checked under SpecIndex *)

\* every product of the call that has an 'id' and that the engine did not
\* reject is in the index, under its id, with its normalised document
OthersIndexed ==
    \A i \in 1..Len(args.products) :
        (Has(args.products[i], "id") /\ i \notin args.outcome.rejected) =>
            /\ Has(os_index, args.products[i].id)
            /\ \E j \in i..Len(args.products) :
                  /\ Has(args.products[j], "id")
                  /\ args.products[j].id = args.products[i].id
                  /\ os_index[args.products[i].id] = IndexDocument(args.products[j])

\* C13 (as claimed): when the engine answers the bulk request, one document it
\* rejects, or one product lacking an 'id', does not abort the others: the call
\* returns a result and every other document is indexed.
C13_OneBadDocumentDoesNotAbort ==
    (op = "bulk_index_products" /\ args.outcome.kind = "ok") =>
        (~ret.raised /\ OthersIndexed)

\* the part of C13 that holds: when every product has an 'id', documents the
\* engine rejects do not keep the others from being indexed
RejectedDocumentDoesNotAbort ==
    (op = "bulk_index_products" /\ args.outcome.kind = "ok"
        /\ \A i \in 1..Len(args.products) : Has(args.products[i], "id")) =>
        (~ret.raised /\ OthersIndexed)


\* C14: every result bulk_index_products returns counts every input product
\* once, as successful (accepted by the engine) or as failed, lists at most
\* ErrorsShown errors, and says success whenever a document was indexed.
C14_ResultCounts ==
    (op = "bulk_index_products" /\ ~ret.raised) =>
        LET v == ret.value
        IN  /\ v.total_products = Len(args.products)
            /\ v.successful + v.failed = v.total_products
            /\ v.failed = Cardinality(args.outcome.rejected)
            /\ Len(v.errors) <= ErrorsShown
            /\ Len(v.errors) = Min(v.failed, ErrorsShown)
            /\ v.successful >= 1 => v.success

\* C14 witness: of twelve products the engine accepted one; the result says
\* success, counts 1 + 11 = 12 and lists ten errors
C14_Witness ==
    /\ op = "bulk_index_products"
    /\ ~ret.raised
    /\ ret.value.success
    /\ ret.value.total_products = ErrorsShown + 2
    /\ ret.value.successful = 1
    /\ ret.value.failed = ErrorsShown + 1
    /\ Len(ret.value.errors) = ErrorsShown


\* the order of the stages of full_catalog_load: each stage is followed by the
\* next one, or by the end of the call
StageOrder ==
    { <<"idle", "process">>, <<"process", "write_store">>,
      <<"write_store", "write_index">>, <<"write_index", "report">>,
      <<"process", "idle">>, <<"write_store", "idle">>,
      <<"write_index", "idle">>, <<"report", "idle">> }

\* C15: the stages of full_catalog_load occur in the order Load, Transform and
\* Embed, Write-store, Write-index, Report.  The store is written only by the
\* Write-store stage, once every product is processed; the index is dropped,
\* recreated or written only by the Write-index stage, once the store write
\* has returned its result; and a run whose Load stage fails (no catalog file,
\* no product) raises at once with the store and the index untouched.
C15_StagesInOrder ==
    [][ /\ pc' # pc => <<pc, pc'>> \in StageOrder
        /\ store' # store =>
              /\ pc = "write_store"
              /\ Has(run, "processed_products")
              /\ Len(run.processed_products) = Len(run.products)
        /\ (os_index' # os_index \/ index_exists' # index_exists) =>
              /\ pc = "write_index"
              /\ Has(run, "dynamodb_result")
        /\ (pc' = "report") => Has(run', "opensearch_result")
        /\ (op = "idle" /\ op' = "full_catalog_load"
                /\ (~args'.file_exists \/ args'.products = <<>>)) =>
              /\ ret'.raised
              /\ pc' = "idle"
              /\ UNCHANGED <<store, os_index, index_exists>>
      ]_vars

\* C15 witness: a run went through every stage and returned its report, the
\* store and the index written
C15_Witness ==
    /\ op = "full_catalog_load"
    /\ pc = "idle"
    /\ ~ret.raised
    /\ Has(run, "dynamodb_result") /\ Has(run, "opensearch_result")
    /\ store # EmptyDict
    /\ os_index # EmptyDict


\* a run of full_catalog_load has ended, its store write having succeeded
StoreWritten ==
    /\ op = "full_catalog_load"
    /\ pc = "idle"
    /\ Has(run, "dynamodb_result")
    /\ run.dynamodb_result.success

\* ... and its index write failed on a connectivity error: load_to_opensearch
\* raised it, or turned it into the result flagged vpc_connectivity_issue
IndexWriteLostConnection ==
    \/ /\ ret.raised
       /\ ~Has(run, "opensearch_result")
       /\ ret.error \in ConnectivityKeywords
    \/ /\ Has(run, "opensearch_result")
       /\ Has(run.opensearch_result, "vpc_connectivity_issue")

\* the partial-success result: no exception, success equal to the store's, and
\* both sub-results, the index one reporting the failure
PartialSuccess ==
    /\ ~ret.raised
    /\ ret.value.success = run.dynamodb_result.success
    /\ ret.value.dynamodb_result = run.dynamodb_result
    /\ ret.value.opensearch_result = run.opensearch_result
    /\ ~ret.value.opensearch_result.success
    /\ ret.value.opensearch_result.failed = Len(args.products)

\* C16: when the store write of a full catalog load succeeds and the index
\* write fails on a connectivity error, full_catalog_load returns a result
\* (it does not raise) whose success flag is the store's and which holds both
\* sub-results, the index one reporting the failure.
C16_ConnectivityFailureIsPartialSuccess ==
    (StoreWritten /\ IndexWriteLostConnection) => PartialSuccess

\* the same with vpc_mode set: the only mode in which load_to_opensearch
\* swallows the connectivity error
PartialSuccessInVpcMode ==
    (StoreWritten /\ IndexWriteLostConnection /\ args.vpc_mode) => PartialSuccess

\* a partial success has been returned
PartialSuccessReturned ==
    StoreWritten /\ IndexWriteLostConnection /\ args.vpc_mode /\ PartialSuccess


\* the ids of the catalog the current run of full_catalog_load has read
CatalogIds == { args.products[i].id : i \in 1..Len(args.products) }

\* a run of full_catalog_load has returned a result whose success flag is set
LoadSucceeded ==
    /\ op = "full_catalog_load"
    /\ pc = "idle"
    /\ ~ret.raised
    /\ ret.value.success

\* a store write on a store that holds the catalog's ids already leaves the
\* set of ids as it was: put_item replaces the record of the same id
StoreLoadIsIdempotent ==
    [][ (pc = "write_store" /\ CatalogIds \subseteq DOMAIN store)
            => DOMAIN store' = DOMAIN store ]_vars

\* when the index write returned the engine's answer, the index holds no
\* document of an earlier load: create_index dropped it first
NoStaleSurvivors ==
    (LoadSucceeded /\ ~Has(ret.value.opensearch_result, "vpc_connectivity_issue"))
        => DOMAIN os_index \subseteq CatalogIds

\* C17: loading the same catalog again leaves the store with the same set of
\* product ids (no duplicates), and after any successful load the index holds
\* exactly the documents of the catalog just loaded: one per product, none
\* left from an earlier load.
C17_LoadIsIdempotent ==
    /\ StoreLoadIsIdempotent
    /\ [](LoadSucceeded =>
            /\ CatalogIds \subseteq DOMAIN store
            /\ DOMAIN os_index = CatalogIds)


\* the Transform stage of the running full_catalog_load has produced its products
Transformed ==
    /\ op = "full_catalog_load"
    /\ Has(run, "processed_products")

\* the engine's answer that accepts every document
AcceptAll == [kind |-> "ok", rejected |-> {}]

\* C18: every product the Transform stage produces has a stable 'id': the
\* record's own, or, for a record that carries none, one derived from its name
\* that is the same in every process; and the product can be written to the
\* index under that id.
C18_EveryProductHasStableId ==
    Transformed =>
        \A i \in 1..Len(run.processed_products) :
            LET p == run.processed_products[i]
                raw == args.products[i]
            IN  /\ Has(p, "id")
                /\ Has(raw, "id") => p.id = raw.id
                /\ \A hash_seed \in HashSeeds :
                      _transform_product_data(raw, hash_seed).id = p.id
                /\ LET b == bulk_index_products(EmptyDict, <<p>>, AcceptAll)
                   IN  ~b.raised /\ DOMAIN b.index = {p.id}

\* what holds: a record that carries an id keeps it, as 'id' and as 'product_id',
\* whatever the process, and can be indexed under it
RecordsWithIdKeepIt ==
    Transformed =>
        \A i \in 1..Len(run.processed_products) :
            LET p == run.processed_products[i]
                raw == args.products[i]
            IN  Has(raw, "id") =>
                    /\ p.id = raw.id /\ p.product_id = raw.id
                    /\ \A hash_seed \in HashSeeds :
                          _transform_product_data(raw, hash_seed).id = p.id
                    /\ LET b == bulk_index_products(EmptyDict, <<p>>, AcceptAll)
                       IN  ~b.raised /\ DOMAIN b.index = {p.id}

\* a record without 'id' gets a 'product_id' only, and one that depends on the
\* process's hash key
RecordsWithoutIdGetUnstableProductId ==
    Transformed =>
        \A i \in 1..Len(run.processed_products) :
            LET p == run.processed_products[i]
                raw == args.products[i]
            IN  ~Has(raw, "id") =>
                    /\ ~Has(p, "id")
                    /\ \E hash_seed \in HashSeeds :
                          _transform_product_data(raw, hash_seed).product_id # p.product_id
                    /\ bulk_index_products(EmptyDict, <<p>>, AcceptAll).raised

\* a record without 'id' went through the Transform stage
RecordWithoutIdTransformed ==
    Transformed /\ \E i \in 1..Len(args.products) : ~Has(args.products[i], "id")


\* the catalog read by the running load holds a price that is a string and no
\* number
UnparsablePrice(raw) ==
    /\ Has(raw, "price")
    /\ isinstance_str(raw.price)
    /\ float_of_str(raw.price.str).raised

\* C19: a record whose price is a string that cannot be parsed as a number is
\* transformed with price 0.0 and processed and written with all the other
\* products: the Transform stage outputs the n products of the catalog, the
\* store write, when the table takes it, writes n products, and the index
\* write sends n documents, none of which the engine has to reject.
C19_BadPriceBecomesZero ==
    (Transformed /\ \E i \in 1..Len(args.products) : UnparsablePrice(args.products[i])) =>
        /\ Len(run.processed_products) = Len(args.products)
        /\ \A i \in 1..Len(args.products) :
              /\ UnparsablePrice(args.products[i]) =>
                    run.processed_products[i].price = Float(0)
              /\ ~EngineMustReject(IndexDocument(run.processed_products[i]))
        /\ Has(run, "dynamodb_result") =>
              /\ run.dynamodb_result.products_written = Len(args.products)
              /\ \A i \in 1..Len(args.products) :
                    /\ Has(store, args.products[i].id)
                    /\ UnparsablePrice(args.products[i]) =>
                          store[args.products[i].id].price = Decimal(Float(0))
        /\ Has(run, "opensearch_result") =>
              /\ run.opensearch_result.total_products = Len(args.products)
              /\ Has(run.opensearch_result, "successful") =>
                    run.opensearch_result.successful + run.opensearch_result.failed
                        = Len(args.products)
        /\ (pc = "idle" /\ ~ret.raised) => ret.value.total_products = Len(args.products)

\* C19 witness: a load of a catalog of more than one product, one price of
\* which is a word, has written every product to the store and to the index
C19_Witness ==
    /\ Transformed
    /\ Len(args.products) > 1
    /\ UnparsablePrice(args.products[1])
    /\ pc = "idle" /\ ~ret.raised
    /\ run.dynamodb_result.products_written = Len(args.products)
    /\ DOMAIN os_index = CatalogIds
    /\ os_index[args.products[1].id].price = Float(0)


\* the Embed stage of a first load has run on a catalog whose records all
\* carry an id
Embedded ==
    /\ Transformed
    /\ Has(run, "responses")
    /\ \A i \in 1..Len(args.products) : Has(args.products[i], "id")

\* the embedding of product i failed: the client could not be made, the call
\* raised, or the answer held no vector
EmbeddingFailed(i) ==
    ~bedrock_runtime \/ run.responses[i].kind # "ok"

\* the errors the store and the engine can end a load with
StoreAndEngineErrors ==
    {"ClientError", "connection error", "authorization", "timeout"}

\* C20: in the Embed stage of a load of n products an embedding failure for
\* product i affects product i only.  The stage outputs the n products in
\* input order; product i goes to the index with the zero vector; every other
\* product goes there with the vector the generator returned for it; and the
\* load that returns still reports success = TRUE (it ends otherwise only on
\* an error of the store or of the engine).
C20_EmbeddingFailureIsLocal ==
    (Embedded /\ \E i \in 1..Len(args.products) : EmbeddingFailed(i)) =>
        /\ Len(run.processed_products) = Len(args.products)
        /\ \A i \in 1..Len(args.products) :
              LET p == run.processed_products[i]
                  doc == IndexDocument(p)
              IN  /\ p.id = args.products[i].id
                  /\ IF EmbeddingFailed(i)
                     THEN /\ p.embedding \in {<<>>, ZeroVector}
                          /\ doc.embedding = ZeroVector
                     ELSE /\ p.embedding = FixDimension(run.responses[i].embedding)
                          /\ p.embedding # ZeroVector
                          /\ doc.embedding = p.embedding
                  /\ (Has(run, "opensearch_result") /\ Has(os_index, p.id)) =>
                        os_index[p.id].embedding = doc.embedding
        /\ pc = "idle" =>
              IF ret.raised
              THEN ret.error \in StoreAndEngineErrors
              ELSE ret.value.success /\ ret.value.total_products = Len(args.products)

\* C20 witness: of two products the second one's embedding call raised; the
\* load returned success, the first product indexed with its vector, the
\* second with the zero vector
C20_Witness ==
    /\ Embedded
    /\ Len(args.products) = MaxProducts
    /\ bedrock_runtime
    /\ run.responses[1].kind = "ok"
    /\ run.responses[MaxProducts].kind = "raise"
    /\ pc = "idle" /\ ~ret.raised /\ ret.value.success
    /\ DOMAIN os_index = CatalogIds
    /\ os_index[args.products[1].id].embedding = FixDimension(run.responses[1].embedding)
    /\ os_index[args.products[MaxProducts].id].embedding = ZeroVector


---------------------------------------------------------------------------
(* Image paths: _transform_product_data and app._ensure_relative_image_urls *)

\* image_url.split('/')[-1]: what follows the last '/'
split_last(s) ==
    LET P == { k \in 1..Len(s) : s[k] = "/" }
    IN  IF P = {} THEN s
        ELSE SubSeq(s, (CHOOSE x \in P : \A y \in P : y <= x) + 1, Len(s))

\* the loop body of _ensure_relative_image_urls (app.py lines 195-212)
ensure_relative_image_url(product) ==
    IF Has(product, "image_url") /\ product.image_url # <<>>
    THEN LET image_url == product.image_url
         IN  IF IsS3Url(image_url)
             THEN LET match == re_search_images(image_url)
                  IN  IF match.matched
                      THEN Put(product, "image_url", ImagesPrefix \o match.group)
                      ELSE IF ~startswith(image_url, ImagesPrefix)
                      THEN Put(product, "image_url",
                               ImagesPrefix \o split_last(image_url))
                      ELSE product
             ELSE IF ~startswith(image_url, ImagesPrefix) /\ ~startswith_http(image_url)
             THEN Put(product, "image_url", ImagesPrefix \o image_url)
             ELSE product
    ELSE product

_ensure_relative_image_urls(products) ==
    [i \in 1..Len(products) |-> ensure_relative_image_url(products[i])]

\* the forms a catalog stores an image under: a bare file name, a path under
\* /images/, another relative path, S3 URLs with and without an /images/
\* segment (one with a query string, one with a regional host), and a URL of
\* another host
S3Host == <<"https:", "/", "/", "bucket.s3.amazonaws.com", "/">>

ImageUrls ==
    { <<"a.jpg">>,
      <<"/", "images", "/", "a.jpg">>,
      <<"pics", "/", "a.jpg">>,
      S3Host \o <<"images", "/", "a.jpg">>,
      S3Host \o <<"images", "/", "a.jpg", "?", "v=1">>,
      S3Host \o <<"pics", "/", "a.jpg">>,
      <<"https:", "/", "/", "bucket.s3-us-west-2.amazonaws.com", "/", "images", "/", "a.jpg">>,
      <<"https:", "/", "/", "cdn.example.com", "/", "a.jpg">> }

\* _transform_product_data on a catalog record that names an image
TransformProductData ==
    /\ op = "idle"
    /\ pc = "idle"
    /\ \E image_url \in ImageUrls, hash_seed \in HashSeeds :
        LET product == Put(RawProduct(1), "image_url", image_url)
        IN  /\ op' = "_transform_product_data"
            /\ args' = [product |-> product]
            /\ ret' = [raised |-> FALSE,
                       value |-> _transform_product_data(product, hash_seed)]
    /\ sent' = <<>>
    /\ UNCHANGED <<bedrock_runtime, os_index, index_exists, store, pc, run>>
    /\ UNCHANGED chat_vars

\* the search endpoints hand the results of the router, documents the
\* pipeline transformed and indexed, to _ensure_relative_image_urls
EnsureRelativeImageUrls ==
    /\ op = "idle"
    /\ pc = "idle"
    /\ \E n \in 1..MaxSize, hash_seed \in HashSeeds :
        \E urls \in [1..n -> ImageUrls] :
            LET catalog == [i \in 1..n |-> Put(RawProduct(i), "image_url", urls[i])]
                products == [i \in 1..n |->
                                _transform_product_data(catalog[i], hash_seed)]
            IN  /\ op' = "_ensure_relative_image_urls"
                /\ args' = [catalog |-> catalog, products |-> products]
                /\ ret' = [raised |-> FALSE,
                           value |-> _ensure_relative_image_urls(products)]
    /\ sent' = <<>>
    /\ UNCHANGED <<bedrock_runtime, os_index, index_exists, store, pc, run>>
    /\ UNCHANGED chat_vars

NextImage ==
    \/ TransformProductData
    \/ EnsureRelativeImageUrls
    \/ Return

SpecImage == InitIndex /\ [][NextImage]_vars

\* /images/<filename>
IsImagesFilename(s) ==
    /\ Len(s) = Len(ImagesPrefix) + 1
    /\ startswith(s, ImagesPrefix)
    /\ s[Len(s)] \notin {"/", "?"}

\* C21: whatever form the source stores a product's image_url in, the value
\* after the Transform stage and the value in every search result the API
\* returns has the form /images/<filename>.
C21_ImagePathsNormalised ==
    /\ op = "_transform_product_data" => IsImagesFilename(ret.value.image_url)
    /\ op = "_ensure_relative_image_urls" =>
          \A i \in 1..Len(ret.value) : IsImagesFilename(ret.value[i].image_url)

\* the forms that do come out as /images/<filename>: a bare file name, a path
\* already of that form, and an S3 URL with the segment /images/<filename>
NormalisedForms ==
    { u \in ImageUrls :
        \/ Len(u) = 1
        \/ IsImagesFilename(u)
        \/ /\ IsS3Url(u)
           /\ re_search_images(u).matched
           /\ Len(re_search_images(u).group) = 1 }

SomeFormsNormalised ==
    /\ op = "_transform_product_data" =>
          (args.product.image_url \in NormalisedForms
              => IsImagesFilename(ret.value.image_url))
    /\ op = "_ensure_relative_image_urls" =>
          \A i \in 1..Len(ret.value) :
              args.catalog[i].image_url \in NormalisedForms
                  => IsImagesFilename(ret.value[i].image_url)

\* a URL of another host is returned as it was stored
ForeignUrlKept ==
    /\ op = "_ensure_relative_image_urls"
    /\ \E i \in 1..Len(ret.value) :
          /\ startswith_http(args.catalog[i].image_url)
          /\ ~IsS3Url(args.catalog[i].image_url)
          /\ ret.value[i].image_url = args.catalog[i].image_url


\* the requests of the call being served that went to the model, and to the engine
ModelRequests == { r \in 1..Len(sent) : sent[r].to = "model" }

SearchRequests == { r \in 1..Len(sent) : sent[r].to = "search" }

\* the router is serving a call whose embedding, if it asked for one, came back
RouterEmbedded ==
    /\ op = "search_products_by_query"
    /\ (args.search_type = "semantic" =>
            ~generate_embeddings(bedrock_runtime, args.query, args.resp).raised)

\* C22: search_products_by_query dispatches by mode.  In semantic mode it
\* calls the embedding generator once (at most one request reaches the model,
\* and it comes first) and then the vector search with the vector the
\* generator returned, never the keyword search; in keyword mode it sends the
\* keyword search only and nothing to the model; and when the generator
\* soft-fails with the zero vector the vector search is still sent, the only
\* error the router can then raise being the engine's.
C22_DispatchByMode ==
    RouterEmbedded =>
        IF args.search_type = "semantic"
        THEN LET e == generate_embeddings(bedrock_runtime, args.query, args.resp)
             IN  /\ Cardinality(ModelRequests) <= 1
                 /\ ModelRequests = 1..Len(e.invoked)
                 /\ Cardinality(SearchRequests) = 1
                 /\ sent[Len(sent)].to = "search"
                 /\ sent[Len(sent)].body.kind = "knn"
                 /\ sent[Len(sent)].body.vector = e.value
                 /\ ret.raised => args.response.kind = "raise"
                 /\ ~ret.raised => ret.value.search_type = "semantic"
        ELSE /\ ModelRequests = {}
             /\ Len(sent) = 1
             /\ sent[1].to = "search"
             /\ sent[1].body.kind = "multi_match"
             /\ ~ret.raised => ret.value.search_type = "keyword"

\* C22 witness: a semantic query whose model call failed was answered by the
\* vector search on the zero vector
C22_Witness ==
    /\ op = "search_products_by_query"
    /\ args.search_type = "semantic"
    /\ bedrock_runtime
    /\ args.resp.kind = "raise"
    /\ Len(sent) = 2
    /\ sent[1].to = "model"
    /\ sent[2].body.vector = ZeroVector
    /\ ~ret.raised
    /\ ret.value.results # <<>>


\* the keys of the envelope; the mode is carried under 'search_type'
EnvelopeKeys == {"query", "total_hits", "results", "took_ms", "search_type"}

\* C23: the response of search_products_by_query is the same envelope in both
\* modes: it always holds the query text, total_hits, results, took_ms and the
\* mode that was used.
C23_UniformEnvelope ==
    (op = "search_products_by_query" /\ ~ret.raised) =>
        /\ EnvelopeKeys \subseteq DOMAIN ret.value
        /\ ret.value.query = args.query
        /\ ret.value.search_type = args.search_type

\* what holds: the keyword envelope is complete; the semantic one holds
\* everything but the query
EnvelopeButQuery ==
    (op = "search_products_by_query" /\ ~ret.raised) =>
        /\ (EnvelopeKeys \ {"query"}) \subseteq DOMAIN ret.value
        /\ ret.value.search_type = args.search_type
        /\ ret.value.took_ms = Elapsed
        /\ IF args.search_type = "keyword"
           THEN Has(ret.value, "query") /\ ret.value.query = args.query
           ELSE ~Has(ret.value, "query")

\* a semantic query was answered
SemanticEnvelopeReturned ==
    op = "search_products_by_query" /\ ~ret.raised /\ args.search_type = "semantic"


---------------------------------------------------------------------------
(* Store round trip: _prepare_item_for_dynamodb and _convert_decimals of
   services/dynamodb_service.py, on values that carry their Python type.
   A float is a binary fraction, mantissa / 2^FracBits; a Decimal is a
   decimal fraction, digits / 10^places. *)

FracBits == 3

FloatUnit == 2 ^ FracBits

\* the largest mantissa and the deepest nesting of the items tried
MaxMantissa == 9

MaxDepth == 2

Binary(mantissa) == [mantissa |-> mantissa]

Whole(n) == [int |-> n]

Dict(d) == [dict |-> d]

List(l) == [list |-> l]

isinstance(v, type) == DOMAIN v = {type}

\* the mantissa of the float nearest to digits / 10^places
nearest_float(digits, places) ==
    (2 * FloatUnit * digits + 10 ^ places) \div (2 * 10 ^ places)

\* str(x) of a float: the shortest decimal fraction that reads back as x, the
\* one nearest to x when several are as short
str_float(x) ==
    LET m == x.mantissa
        Cands(k) == { c \in { (m * 10 ^ k) \div FloatUnit,
                              (m * 10 ^ k) \div FloatUnit + 1 } :
                        nearest_float(c, k) = m }
        Dist(c, k) == IF c * FloatUnit >= m * 10 ^ k
                      THEN c * FloatUnit - m * 10 ^ k
                      ELSE m * 10 ^ k - c * FloatUnit
        k == CHOOSE p \in 0..FracBits :
                /\ Cands(p) # {}
                /\ \A q \in 0..(p - 1) : Cands(q) = {}
        c == CHOOSE d \in Cands(k) : \A e \in Cands(k) : Dist(d, k) <= Dist(e, k)
    IN  [digits |-> c, places |-> k]

\* float(obj) of a Decimal
float_of_decimal(d) == Float(Binary(nearest_float(d.digits, d.places)))

\* a conversion that keeps the integer part of a float only
RECURSIVE ConvertFloatsToWhole(_)
ConvertFloatsToWhole(obj) ==
    IF isinstance(obj, "dict")
    THEN Dict([k \in DOMAIN obj.dict |-> ConvertFloatsToWhole(obj.dict[k])])
    ELSE IF isinstance(obj, "list")
    THEN List([i \in 1..Len(obj.list) |-> ConvertFloatsToWhole(obj.list[i])])
    ELSE IF isinstance(obj, "float")
    THEN Decimal([digits |-> obj.float.mantissa \div FloatUnit, places |-> 0])
    ELSE obj

\* convert_floats of _prepare_item_for_dynamodb (lines 115-123)
RECURSIVE convert_floats(_)
convert_floats(obj) ==
    IF isinstance(obj, "dict")
    THEN Dict([k \in DOMAIN obj.dict |-> convert_floats(obj.dict[k])])
    ELSE IF isinstance(obj, "list")
    THEN List([i \in 1..Len(obj.list) |-> convert_floats(obj.list[i])])
    ELSE IF isinstance(obj, "float")
    THEN Decimal(str_float(obj.float))
    ELSE obj

\* _convert_decimals (lines 104-111)
RECURSIVE _convert_decimals(_)
_convert_decimals(obj) ==
    IF isinstance(obj, "list")
    THEN List([i \in 1..Len(obj.list) |-> _convert_decimals(obj.list[i])])
    ELSE IF isinstance(obj, "dict")
    THEN Dict([k \in DOMAIN obj.dict |-> _convert_decimals(obj.dict[k])])
    ELSE IF isinstance(obj, "decimal")
    THEN float_of_decimal(obj.decimal)
    ELSE obj

\* what the table hands back for a stored item: every number, whole ones
\* included, as a Decimal
RECURSIVE TableReturns(_)
TableReturns(obj) ==
    IF isinstance(obj, "dict")
    THEN Dict([k \in DOMAIN obj.dict |-> TableReturns(obj.dict[k])])
    ELSE IF isinstance(obj, "list")
    THEN List([i \in 1..Len(obj.list) |-> TableReturns(obj.list[i])])
    ELSE IF isinstance(obj, "int")
    THEN Decimal([digits |-> obj.int, places |-> 0])
    ELSE obj

\* the numbers a record holds: floats and whole numbers
ItemNumbers ==
    { Float(Binary(m)) : m \in 0..MaxMantissa } \cup { Whole(0), Whole(1) }

\* v under dicts and lists, outermost first
RECURSIVE Nested(_, _)
Nested(v, shape) ==
    IF shape = <<>> THEN v
    ELSE IF Head(shape) = "dict"
    THEN Dict([value |-> Nested(v, Tail(shape)), unit |-> Str(<<"g">>)])
    ELSE List(<<Nested(v, Tail(shape)), Str(<<"g">>)>>)

ItemShapes == UNION { [1..d -> {"dict", "list"}] : d \in 0..MaxDepth }

\* a product record: display fields and a nested attribute
ProductItems ==
    { Dict([id |-> Str(<<"p1">>), name |-> Str(<<"name", "p1">>),
            category |-> Str(<<"Vitamins">>), price |-> price,
            in_stock |-> [bool |-> TRUE],
            details |-> Nested(detail, shape)]) :
        price \in ItemNumbers, detail \in ItemNumbers, shape \in ItemShapes }

\* _prepare_item_for_dynamodb(item)
PrepareItemForDynamodb ==
    /\ op = "idle"
    /\ pc = "idle"
    /\ \E item \in ProductItems :
        /\ op' = "_prepare_item_for_dynamodb"
        /\ args' = [item |-> item]
        /\ ret' = [raised |-> FALSE, value |-> convert_floats(item)]
    /\ sent' = <<>>
    /\ UNCHANGED <<bedrock_runtime, os_index, index_exists, store, pc, run>>
    /\ UNCHANGED chat_vars

\* an item prepared and put as batch_write_products does, then read back and
\* converted as the readers of the table do
WriteThenRead ==
    /\ op = "idle"
    /\ pc = "idle"
    /\ \E item \in ProductItems :
        LET stored == convert_floats(item)
        IN  /\ op' = "write_then_read"
            /\ args' = [item |-> item]
            /\ ret' = [raised |-> FALSE,
                       value |-> [stored |-> stored,
                                  read |-> _convert_decimals(TableReturns(stored))]]
    /\ sent' = <<>>
    /\ UNCHANGED <<bedrock_runtime, os_index, index_exists, store, pc, run>>
    /\ UNCHANGED chat_vars

NextStore ==
    \/ PrepareItemForDynamodb
    \/ WriteThenRead
    \/ Return

SpecStore == InitIndex /\ [][NextStore]_vars

\* a number, in units of 1 / FloatUnit
NumberValue(v) ==
    IF isinstance(v, "float") THEN v.float.mantissa ELSE v.int * FloatUnit

IsNumber(v) == isinstance(v, "float") \/ isinstance(v, "int")

\* a and b are the same value, numbers being compared by what they are worth
RECURSIVE SameUpToEncoding(_, _)
SameUpToEncoding(a, b) ==
    IF isinstance(a, "dict")
    THEN /\ isinstance(b, "dict")
         /\ DOMAIN a.dict = DOMAIN b.dict
         /\ \A k \in DOMAIN a.dict : SameUpToEncoding(a.dict[k], b.dict[k])
    ELSE IF isinstance(a, "list")
    THEN /\ isinstance(b, "list")
         /\ Len(a.list) = Len(b.list)
         /\ \A i \in 1..Len(a.list) : SameUpToEncoding(a.list[i], b.list[i])
    ELSE IF IsNumber(a)
    THEN IsNumber(b) /\ NumberValue(a) = NumberValue(b)
    ELSE a = b

\* no float is left in a value, at any depth
RECURSIVE HoldsNoFloat(_)
HoldsNoFloat(v) ==
    IF isinstance(v, "dict")
    THEN \A k \in DOMAIN v.dict : HoldsNoFloat(v.dict[k])
    ELSE IF isinstance(v, "list")
    THEN \A i \in 1..Len(v.list) : HoldsNoFloat(v.list[i])
    ELSE ~isinstance(v, "float")

\* C24: store round trip.  A product record converted for storage
\* (_prepare_item_for_dynamodb) and converted back from what the store returns
\* (_convert_decimals) has the same name, price and category, numbers being
\* equal up to the store's encoding, at every depth of dicts and lists; and
\* the stored form holds no float.
C24_StoreRoundTrip ==
    /\ op = "_prepare_item_for_dynamodb" => HoldsNoFloat(ret.value)
    /\ op = "write_then_read" =>
          LET item == args.item.dict
              read == ret.value.read.dict
          IN  /\ HoldsNoFloat(ret.value.stored)
              /\ read.name = item.name
              /\ read.category = item.category
              /\ NumberValue(read.price) = NumberValue(item.price)
              /\ SameUpToEncoding(args.item, ret.value.read)

\* C24 witness: a price of 1/8, stored as the decimal 0.1, and the same number
\* two levels down came back as they were
C24_Witness ==
    /\ op = "write_then_read"
    /\ args.item.dict.price = Float(Binary(1))
    /\ ret.value.stored.dict.price = Decimal([digits |-> 1, places |-> 1])
    /\ ret.value.read.dict.price = Float(Binary(1))
    /\ isinstance(args.item.dict.details, "list")
    /\ isinstance(args.item.dict.details.list[1], "dict")
    /\ args.item.dict.details.list[1].dict.value = Float(Binary(1))
    /\ ret.value.read.dict.details.list[1].dict.value = Float(Binary(1))


\* the running load has read a catalog one record of which cannot be turned
\* into searchable text
BadRecordLoaded ==
    /\ op = "full_catalog_load"
    /\ args.file_exists
    /\ ProcessRaisesAt(args.products) # 0

\* the searchable texts of the records before the first bad one
TextsBeforeBadRecord ==
    { strip(_create_searchable_text(args.products[i])) :
        i \in 1..(ProcessRaisesAt(args.products) - 1) }

\* C25: when building the searchable text of one catalog record raises (a list
\* field holding an item that is no string), process_products_for_search and
\* full_catalog_load propagate the exception: the record is not skipped, no
\* later record is processed (the model is asked for the records before it
\* only), and the run writes nothing to the store or to the index.
C25_TransformFailurePropagates ==
    BadRecordLoaded =>
        /\ pc \in {"process", "idle"}
        /\ ~Has(run, "processed_products")
        /\ store = EmptyDict /\ os_index = EmptyDict /\ ~index_exists
        /\ Len(sent) < ProcessRaisesAt(args.products)
        /\ \A r \in 1..Len(sent) :
              sent[r].to = "model" /\ sent[r].inputText \in TextsBeforeBadRecord
        /\ pc = "idle" => (ret.raised /\ ret.error = "TypeError")

\* C25 witness: the last record of a catalog was the bad one; the record
\* before it had been sent to the model, and the load raised
C25_Witness ==
    /\ BadRecordLoaded
    /\ ProcessRaisesAt(args.products) = Len(args.products)
    /\ Len(sent) = Len(args.products) - 1
    /\ Len(sent) >= 1
    /\ pc = "idle"
    /\ ret.raised
    /\ store = EmptyDict


\* C26: bulk_index_products leaves its input unchanged: after the call every
\* input product has the keys and values it had, its embedding list the same
\* length and elements, whatever the length of the embedding (empty, shorter
\* than D, D, longer than D).
C26_BulkIndexLeavesInputUnchanged ==
    op = "bulk_index_products" => ret.after = args.products

\* what holds: a product is left as it was unless its embedding is non-empty
\* and shorter than D; the caller's list of such a product is padded with zeros
\* to D elements, its other keys being untouched
ShortEmbedding(product) ==
    /\ Has(product, "embedding")
    /\ product.embedding # <<>>
    /\ Len(product.embedding) < D

OnlyShortEmbeddingsChange ==
    op = "bulk_index_products" =>
        /\ Len(ret.after) = Len(args.products)
        /\ \A i \in 1..Len(args.products) :
              LET before == args.products[i]
                  after == ret.after[i]
              IN  IF ShortEmbedding(before) /\ i <= FirstWithoutId(args.products, 1)
                  THEN /\ DOMAIN after = DOMAIN before
                       /\ \A k \in DOMAIN before \ {"embedding"} : after[k] = before[k]
                       /\ Len(after.embedding) = D
                       /\ SubSeq(after.embedding, 1, Len(before.embedding))
                              = before.embedding
                  ELSE after = before

\* a product with a short embedding went through bulk_index_products
ShortEmbeddingIndexed ==
    /\ op = "bulk_index_products"
    /\ ~ret.raised
    /\ \E i \in 1..Len(args.products) : ShortEmbedding(args.products[i])


\* the engine rejected every document of a non-empty batch
EveryDocumentRejected ==
    /\ op = "bulk_index_products"
    /\ ~ret.raised
    /\ args.products # <<>>
    /\ args.outcome.rejected = 1..Len(args.products)

\* C27: bulk_index_products reports success = FALSE when no document of a
\* non-empty batch was indexed, every document having been rejected by the
\* engine.
C27_NothingIndexedIsFailure ==
    EveryDocumentRejected => ~ret.value.success

\* what the call returns instead: success whenever the engine answered, with
\* the counts telling that nothing was indexed
AnsweredBulkIsSuccess ==
    (op = "bulk_index_products" /\ ~ret.raised) =>
        /\ ret.value.success
        /\ EveryDocumentRejected =>
              (ret.value.successful = 0 /\ ret.value.failed = Len(args.products))


---------------------------------------------------------------------------
(* The /search/semantic endpoint: app.semantic_search *)

\* the similarity_threshold of a SemanticSearchRequest: the default, and the
\* strictest one
DefaultThreshold == Ratio(7, 10)

RequestThresholds == { DefaultThreshold, Ratio(1, 1) }

\* semantic_search(request) of app.py, when the model answers resp and the
\* engine response: the SearchResponse, or the HTTPException of line 282
semantic_search_endpoint(client, request, resp, response) ==
    LET r == search_products_by_query(client, request.query, "semantic",
                                      request.filters, request.size, resp, response)
    IN  IF r.raised
        THEN [raised |-> TRUE, error |-> "HTTPException 500", value |-> EmptyDict,
              sent |-> r.sent]
        ELSE [raised |-> FALSE, error |-> "",
              value |-> [query |-> request.query,
                         total_hits |-> r.value.total_hits,
                         results |-> _ensure_relative_image_urls(r.value.results),
                         from |-> request.from,
                         size |-> request.size,
                         took_ms |-> r.value.took_ms],
              sent |-> r.sent]

SemanticSearchEndpoint ==
    /\ op = "idle"
    /\ \E size \in 1..MaxSize, similarity_threshold \in RequestThresholds,
          filters \in {EmptyDict, [category |-> "Vitamins"]},
          resp \in { [kind |-> "raise"], [kind |-> "ok", embedding |-> Vec(D)] } :
        LET request == [query |-> <<"a", "b">>, filters |-> filters, size |-> size,
                        from |-> 0, similarity_threshold |-> similarity_threshold]
        IN  \E response \in
                IF generate_embeddings(bedrock_runtime, request.query, resp).raised
                THEN { [kind |-> "raise"] }
                ELSE EngineResponses(os_index,
                        RouterBody(bedrock_runtime, request.query, "semantic",
                                   filters, size, resp),
                        Scores) :
            LET r == semantic_search_endpoint(bedrock_runtime, request, resp, response)
            IN  /\ op' = "semantic_search_endpoint"
                /\ args' = [request |-> request, resp |-> resp, response |-> response]
                /\ ret' = [raised |-> r.raised, value |-> r.value]
                /\ sent' = r.sent
                /\ UNCHANGED <<bedrock_runtime, os_index, index_exists, store, pc, run>>
    /\ UNCHANGED chat_vars

NextApi ==
    \/ SemanticSearchEndpoint
    \/ Return

SpecApi == InitSearch /\ [][NextApi]_vars

\* C28: a semantic search issued through the endpoint filters its results by
\* the similarity_threshold of the request: no result has a similarity below
\* the threshold the caller supplied (0.7 when the caller supplied none).
C28_EndpointAppliesThreshold ==
    (op = "semantic_search_endpoint" /\ ~ret.raised) =>
        \A i \in 1..Len(ret.value.results) :
            RatioGE(ret.value.results[i].similarity, args.request.similarity_threshold)

\* what the endpoint returns: the first `size` hits of the engine, whatever
\* their similarity, as semantic_search does under its own default of 0.0
EndpointIgnoresThreshold ==
    (op = "semantic_search_endpoint" /\ ~ret.raised) =>
        LET hits == args.response.hits
            results == ret.value.results
        IN  /\ Len(results) = Min(args.request.size, Len(hits))
            /\ \A i \in 1..Len(results) : results[i].id = hits[i]._source.id
            /\ \A r \in 1..Len(sent) :
                  sent[r].to = "search" =>
                      ~Has(sent[r].body, "similarity_threshold")

\* a result whose similarity is 0.0 came back for a request at the default
\* threshold
ResultBelowDefaultThreshold ==
    /\ op = "semantic_search_endpoint"
    /\ ~ret.raised
    /\ args.request.similarity_threshold = DefaultThreshold
    /\ \E i \in 1..Len(ret.value.results) : ret.value.results[i].similarity.num = 0


---------------------------------------------------------------------------
(* The best candidate of a vector search *)

\* a vector search the engine answered with at least one hit, the best of
\* which has a positive raw score
PositiveCandidates ==
    /\ op = "semantic_search"
    /\ Len(args.query_embedding) = D
    /\ args.response.kind = "ok"
    /\ args.response.hits # <<>>
    /\ \E i \in 1..Len(args.response.hits) : args.response.hits[i]._score > 0

\* the hit i holds the largest raw score of the hits
HoldsMaximum(hits, i) == \A k \in 1..Len(hits) : hits[k]._score <= hits[i]._score

\* C29: for a non-empty candidate set whose maximum raw score is positive,
\* any threshold in [0,1] and any size >= 1, semantic_search returns at least
\* one result: a candidate holding the maximum raw score has similarity 1.0,
\* so it passes every threshold, and the first result returned is a hit no
\* later than the first such candidate.
C29_BestCandidateAlwaysReturned ==
    PositiveCandidates =>
        LET hits == args.response.hits
            results == ret.value.results
            best == { i \in 1..Len(hits) : HoldsMaximum(hits, i) }
        IN  /\ ~ret.raised
            /\ Len(results) >= 1
            /\ ret.value.total_hits >= 1
            /\ \E i \in best :
                  \E k \in 1..i :
                      /\ results[1].id = hits[k]._source.id
                      /\ results[1].raw_score = hits[k]._score
            /\ \A j \in 1..Len(results) :
                  (\E i \in best : results[j].raw_score = hits[i]._score) =>
                      results[j].similarity.num = results[j].similarity.den

\* C29 witness: at the threshold 1.0, hits that all have the same positive raw
\* score came back, and so did the best hit alone of hits of different scores
C29_Witness ==
    /\ PositiveCandidates
    /\ args.similarity_threshold = Ratio(1, 1)
    /\ Len(args.response.hits) >= 2
    /\ \/ /\ \A i \in 1..Len(args.response.hits) :
                args.response.hits[i]._score = args.response.hits[1]._score
          /\ Len(ret.value.results) = Min(args.size, Len(args.response.hits))
       \/ /\ args.response.hits[1]._score < args.response.hits[2]._score
          /\ Len(ret.value.results) = 1
          /\ ret.value.results[1].id = args.response.hits[2]._source.id


---------------------------------------------------------------------------
(* Chats over websockets and the streaming callbacks of the search agent *)

\* uuid.uuid4().hex[:8]: the values it may give
Uuids == {"1f", "2e"}

\* the tools the assistant uses: one with a streaming sub-agent, one without
ToolNames == {"search_agent", "get_customer_data"}

\* line 535: the tools whose sub-agent streams
StreamingTools == {"search_agent", "bloodwork_analyzer", "body_composition_analyzer"}

\* how many chunks a handler accumulates before the text is flushed
MaxChunks == 1

\* line 533: f"{user_id}_{tool_name}_{uuid}", as its pieces
CallbackId(user_id, tool_name, uuid) == <<user_id, "_", tool_name, "_", uuid>>

\* lines 562: f"{user_id}_{tool_name}", as its pieces
ClearId(user_id, tool_name) == <<user_id, "_", tool_name>>

\* agent_name in callback_id: the name is one of the pieces of the id
Contains(agent_name, callback_id) ==
    \E i \in 1..Len(callback_id) : callback_id[i] = agent_name

\* the position of the key callback_id in the registry, 0 when it is absent
KeyPosition(callbacks, callback_id) ==
    IF \E i \in 1..Len(callbacks) : callbacks[i].callback_id = callback_id
    THEN CHOOSE i \in 1..Len(callbacks) : callbacks[i].callback_id = callback_id
    ELSE 0

\* StreamingCallbackManager.set_callback: self._callbacks[callback_id] = ...
\* (a key already present keeps its place)
set_callback(callbacks, callback_id, websocket) ==
    LET entry == [callback_id |-> callback_id, websocket |-> websocket]
        at == KeyPosition(callbacks, callback_id)
    IN  IF at = 0 THEN Append(callbacks, entry)
        ELSE [callbacks EXCEPT ![at] = entry]

\* StreamingCallbackManager.clear_callback: del self._callbacks[callback_id]
\* when the key is present
clear_callback(callbacks, callback_id) ==
    SelectSeq(callbacks, LAMBDA c : c.callback_id # callback_id)

\* StreamingCallbackManager.get_active_callback: the first callback, in
\* insertion order, whose id contains agent_name: <<callback>>, or <<>> for None
get_active_callback(callbacks, agent_name) ==
    LET matching == SelectSeq(callbacks, LAMBDA c : Contains(agent_name, c.callback_id))
    IN  IF matching = <<>> THEN <<>> ELSE <<matching[1]>>

\* manager.send_personal_message(message, websocket)
send_personal_message(sockets, message, websocket) ==
    [sockets EXCEPT ![websocket] = message]

\* a WebSocketResponse; chat and agent tell whose chat the text belongs to and
\* which agent wrote it
WebSocketResponse(type, message, user_id, chat, agent) ==
    [type |-> type, message |-> message, user_id |-> user_id,
     chat |-> chat, agent |-> agent]

\* the events user_agent.stream_async gives a handler that stands at pc
AgentEvents(chat) ==
    IF chat.pc = "stream"
    THEN (IF Len(chat.accumulated_response) < MaxChunks
          THEN { [data |-> "chunk"] } ELSE {})
         \cup { [complete |-> TRUE] }
         \cup { [current_tool_use |-> [name |-> t]] : t \in ToolNames }
    ELSE IF chat.pc = "tool_use"
    THEN { [current_tool_use |-> [name |-> chat.tool_name]] }
    ELSE IF chat.pc = "tool_ran"
    THEN { [tool_result |-> "result", current_tool_use |-> [name |-> chat.tool_name]],
           [tool_result |-> "result", current_tool_use |-> EmptyDict],
           [tool_result |-> "result"] }
    ELSE {}

\* lines 457-554: the branch of the handler's loop an event takes
Branch(event) ==
    IF Has(event, "data") THEN "data"
    ELSE IF Has(event, "complete") /\ event.complete THEN "complete"
    ELSE IF /\ Has(event, "current_tool_use")
            /\ Has(event.current_tool_use, "name")
            /\ event.current_tool_use.name # ""
         THEN "tool_use"
    ELSE IF Has(event, "tool_result") /\ Has(event, "current_tool_use")
         THEN "tool_result"
    ELSE "none"

\* lines 472-506 and 576-605: the messages that may close a message cycle
Completions(user_id, accumulated_response) ==
    { WebSocketResponse(type, accumulated_response, "assistant", user_id, "assistant") :
        type \in {"structured_recommendations", "chat_complete"} }

\* line 400: a chat message of user_id arrives and its handler starts streaming
ChatStart(user_id) ==
    /\ chats[user_id].pc = "idle"
    /\ chats' = [chats EXCEPT ![user_id] = [NoChat EXCEPT !.pc = "stream"]]
    /\ UNCHANGED <<search_callbacks, websockets>>

\* where the handler stands once it has handled an event: a tool use was
\* announced (callback_id: the id registered for it), the result of the tool
\* use was seen, or text goes on
AfterEvent(chat, event, callback_id) ==
    IF chat.pc = "tool_ran"
    THEN [chat EXCEPT !.pc = "stream", !.seen_result = TRUE,
                      !.accumulated_response =
                          IF Branch(event) = "tool_use" THEN <<>> ELSE @]
    ELSE IF Branch(event) = "tool_use"
    THEN [pc |-> "tool_use", tool_name |-> event.current_tool_use.name,
          callback_id |-> IF event.current_tool_use.name \in StreamingTools
                          THEN callback_id ELSE <<>>,
          accumulated_response |-> <<>>, seen_result |-> FALSE]
    ELSE IF Branch(event) = "data"
    THEN [chat EXCEPT !.accumulated_response = Append(@, event.data)]
    ELSE [chat EXCEPT !.accumulated_response = <<>>, !.pc = "end"]

\* lines 452-571: one turn of the handler's loop, on the event the agent gives
HandleEvent(user_id) ==
    \E event \in AgentEvents(chats[user_id]), uuid \in Uuids :
        LET chat == chats[user_id]
            websocket == Websocket(user_id)
            branch == Branch(event)
            tool_name == IF Has(event, "current_tool_use")
                            /\ Has(event.current_tool_use, "name")
                         THEN event.current_tool_use.name ELSE "None"
            callback_id == CallbackId(user_id, tool_name, uuid)
        IN  /\ chats' = [chats EXCEPT ![user_id] = AfterEvent(chat, event, callback_id)]
            /\ \/ /\ branch = "data"
                  /\ websockets' = send_personal_message(websockets,
                         WebSocketResponse("stream", <<event.data>>, "assistant", user_id,
                                           "assistant"),
                         websocket)
                  /\ UNCHANGED search_callbacks
               \/ /\ branch = "complete"
                  /\ \E done \in Completions(user_id, chat.accumulated_response) :
                         websockets' = send_personal_message(websockets, done, websocket)
                  /\ UNCHANGED search_callbacks
               \/ /\ branch = "tool_use"
                  /\ LET boundary ==
                           IF chat.accumulated_response # <<>>
                           THEN send_personal_message(websockets,
                                   WebSocketResponse("message_boundary",
                                       chat.accumulated_response, "assistant", user_id,
                                       "assistant"),
                                   websocket)
                           ELSE websockets
                     IN  websockets' = send_personal_message(boundary,
                               WebSocketResponse("system", <<"Using", tool_name>>,
                                                 "system", user_id, "assistant"),
                               websocket)
                  /\ search_callbacks' =
                        IF tool_name = "search_agent"
                        THEN set_callback(search_callbacks, callback_id, websocket)
                        ELSE search_callbacks
               \/ /\ branch = "tool_result"
                  /\ search_callbacks' =
                        IF tool_name = "search_agent"
                        THEN clear_callback(search_callbacks, ClearId(user_id, tool_name))
                        ELSE search_callbacks
                  /\ UNCHANGED websockets
               \/ /\ branch = "none"
                  /\ UNCHANGED <<search_callbacks, websockets>>

\* search_agent.py lines 66-72 and 103-107: the assistant of user_id runs the
\* tool it announced; search_agent streams its text through the active callback
\* of the registry, if there is one
RunTool(user_id) ==
    /\ chats[user_id].pc = "tool_use"
    /\ LET active_callback == get_active_callback(search_callbacks, "search_agent")
       IN  websockets' =
             IF chats[user_id].tool_name = "search_agent" /\ active_callback # <<>>
             THEN send_personal_message(websockets,
                     WebSocketResponse("stream", <<"found">>, "assistant", user_id,
                                       "search_agent"),
                     active_callback[1].websocket)
             ELSE websockets
    /\ chats' = [chats EXCEPT ![user_id].pc = "tool_ran"]
    /\ UNCHANGED search_callbacks

\* lines 573-605: the stream of the assistant ends and the handler returns
ChatEnd(user_id) ==
    /\ chats[user_id].pc \in {"stream", "end"}
    /\ IF chats[user_id].accumulated_response # <<>>
       THEN \E done \in Completions(user_id, chats[user_id].accumulated_response) :
               websockets' = send_personal_message(websockets, done, Websocket(user_id))
       ELSE UNCHANGED websockets
    /\ chats' = [chats EXCEPT ![user_id] = NoChat]
    /\ UNCHANGED search_callbacks

service_vars == <<bedrock_runtime, os_index, index_exists, store, op, args, ret, sent, pc, run>>

StartChat == \E u \in Users : ChatStart(u) /\ UNCHANGED service_vars

ChatEvent == \E u \in Users : HandleEvent(u) /\ UNCHANGED service_vars

SearchAgent == \E u \in Users : RunTool(u) /\ UNCHANGED service_vars

EndChat == \E u \in Users : ChatEnd(u) /\ UNCHANGED service_vars

NextChat ==
    \/ StartChat
    \/ ChatEvent
    \/ SearchAgent
    \/ EndChat

SpecChat == InitIndex /\ [][NextChat]_vars


\* the callback registered for the search_agent use of user_id's chat is in
\* the registry
Registered(user_id) ==
    KeyPosition(search_callbacks, chats[user_id].callback_id) # 0

\* a search_agent run streamed on the websocket w
SubAgentStream(w) ==
    /\ websockets[w].type = "stream"
    /\ websockets[w].agent = "search_agent"

\* C30: streaming callbacks of sub-agents are scoped to one tool use: once the
\* chat handler has seen the tool-result event of a search_agent use, the
\* callback registered for that use is no longer in the registry, and under
\* any interleaving of chats of different users a search_agent run streams
\* only to the websocket of the chat that started it.
C30_CallbackScopedToToolUse ==
    /\ \A u \in Users :
          (chats[u].seen_result /\ chats[u].tool_name = "search_agent") =>
              ~Registered(u)
    /\ \A w \in DOMAIN websockets :
          SubAgentStream(w) => w = Websocket(websockets[w].chat)

\* what the registry does: no step removes a callback or moves it, so the
\* registry only grows
CallbacksAreNeverCleared ==
    [][ /\ Len(search_callbacks') >= Len(search_callbacks)
        /\ \A i \in 1..Len(search_callbacks) :
              search_callbacks'[i].callback_id = search_callbacks[i].callback_id ]_vars

\* where a search_agent run streams: to the websocket of the oldest callback
\* of the registry, whoever started the run
StreamsGoToOldestCallback ==
    \A w \in DOMAIN websockets :
        SubAgentStream(w) =>
            /\ search_callbacks # <<>>
            /\ w = search_callbacks[1].websocket

\* the handler of a chat has seen the result of its search_agent use and the
\* callback of that use is still registered
CallbackSurvivesItsUse ==
    \E u \in Users :
        /\ chats[u].seen_result
        /\ chats[u].tool_name = "search_agent"
        /\ Registered(u)

\* a search_agent run of one user's chat streamed to the websocket of another
StreamReachedAnotherUser ==
    \E w \in DOMAIN websockets :
        /\ SubAgentStream(w)
        /\ w # Websocket(websockets[w].chat)

=============================================================================
